---- MODULE Spec2Model ----
(***************************************************************************)
(* Model of the EduManage dynamic configuration subsystem:                 *)
(*   - the Configuration document schema, validateValue, formattedValue    *)
(*     and the pre('save') hook        (backend/models/Configuration.js)   *)
(*   - the /api/configurations router  (unnamed/part_004)                  *)
(*   - the auth / authorize middleware (unnamed/part_006)                  *)
(*   - the seed script                 (backend/scripts/seedConfigurations)*)
(*   - the client cache     (frontend/src/context/ConfigurationContext.js) *)
(* Every handler is split at its awaits on the Configuration collection:   *)
(* a first step (middleware, request validators, findOne, in-memory edits) *)
(* and a second step (save / delete).  Requests of different slots         *)
(* interleave between these steps.                                         *)
(***************************************************************************)
EXTENDS Integers, Sequences, FiniteSets, TLC

(***************************************************************************)
(* JavaScript values.  A value is a record of fixed shape so that any two  *)
(* values can be compared.  Strings are tuples of one-character strings.   *)
(* A number is the integer n * 10^e: e is 0 for every number that fits the *)
(* 32-bit integers, and a larger one has the longest mantissa n that fits. *)
(***************************************************************************)
Undefined == [k |-> "undefined", n |-> 0, e |-> 0, b |-> FALSE, s |-> <<>>, a |-> <<>>]
Null      == [k |-> "null",      n |-> 0, e |-> 0, b |-> FALSE, s |-> <<>>, a |-> <<>>]
Num(i)    == [k |-> "number",    n |-> i, e |-> 0, b |-> FALSE, s |-> <<>>, a |-> <<>>]
Bool(x)   == [k |-> "boolean",   n |-> 0, e |-> 0, b |-> x,     s |-> <<>>, a |-> <<>>]
Str(cs)   == [k |-> "string",    n |-> 0, e |-> 0, b |-> FALSE, s |-> cs,   a |-> <<>>]
Arr(els)  == [k |-> "array",     n |-> 0, e |-> 0, b |-> FALSE, s |-> <<>>, a |-> els]

\* The result of Number(x): NaN, Infinity (inf = 1), -Infinity (inf = -1) or
\* the integer n * 10^e.
NaN       == [nan |-> TRUE,  inf |-> 0, n |-> 0, e |-> 0]
Finite(i) == [nan |-> FALSE, inf |-> 0, n |-> i, e |-> 0]
Infinite(sign) == [nan |-> FALSE, inf |-> sign, n |-> 0, e |-> 0]

\* The number m * 10^e, e >= 0.
RECURSIVE Scaled(_, _)
Scaled(m, e) ==
  IF m = 0 \/ e = 0 THEN Finite(m)
  ELSE IF m <= 214748364 /\ m >= -214748364 THEN Scaled(10 * m, e - 1)
  ELSE [Finite(m) EXCEPT !.e = e]

\* The number value as a JavaScript value.
AsValue(x) == [Num(x.n) EXCEPT !.e = x.e]

\* numValue < bound and numValue > bound for a number that is not NaN and a
\* bound that fits the 32-bit integers.
LessThan(x, bound) ==
  x.inf = -1 \/ (x.inf = 0 /\ IF x.e = 0 THEN x.n < bound ELSE x.n < 0)
GreaterThan(x, bound) ==
  x.inf = 1 \/ (x.inf = 0 /\ IF x.e = 0 THEN x.n > bound ELSE x.n > 0)

Digits == <<"0", "1", "2", "3", "4", "5", "6", "7", "8", "9">>
IsDigit(c) == \E i \in 1..10 : Digits[i] = c
DigitVal(c) == (CHOOSE i \in 1..10 : Digits[i] = c) - 1

RECURSIVE NatToChars(_)
NatToChars(i) ==
  IF i < 10 THEN <<Digits[i + 1]>>
  ELSE NatToChars(i \div 10) \o <<Digits[(i % 10) + 1]>>

\* String(n) for an integer n.
NumToChars(i) == IF i < 0 THEN <<"-">> \o NatToChars(0 - i) ELSE NatToChars(i)

RECURSIVE Zeros(_)
Zeros(e) == IF e = 0 THEN <<>> ELSE <<"0">> \o Zeros(e - 1)

\* The digits of a mantissa without its trailing zeros.
RECURSIVE Significant(_)
Significant(cs) ==
  IF Len(cs) > 1 /\ cs[Len(cs)] = "0"
  THEN Significant(SubSeq(cs, 1, Len(cs) - 1))
  ELSE cs

\* String(x) for the number x = i * 10^e: the digits written out up to 21
\* of them, and from 10^21 on the first digit, the fraction and e+ with the
\* decimal exponent.
NumberToString(i, e) ==
  LET digits == NatToChars(IF i < 0 THEN 0 - i ELSE i)
      sig == Significant(digits)
  IN IF Len(digits) + e <= 21 THEN NumToChars(i) \o Zeros(e)
     ELSE (IF i < 0 THEN <<"-">> ELSE <<>>)
          \o <<Head(sig)>>
          \o (IF Len(sig) > 1 THEN <<".">> \o Tail(sig) ELSE <<>>)
          \o <<"e", "+">> \o NatToChars(Len(digits) + e - 1)

RECURSIVE DigitsToNat(_, _)
DigitsToNat(cs, acc) ==
  IF cs = <<>> THEN acc
  ELSE DigitsToNat(Tail(cs), acc * 10 + DigitVal(Head(cs)))

AllDigits(cs) == cs # <<>> /\ \A i \in 1..Len(cs) : IsDigit(cs[i])

\* The digits of the bases of 0x, 0o and 0b literals, in either case.
HexDigits == <<"0", "1", "2", "3", "4", "5", "6", "7", "8", "9", "a", "b", "c", "d", "e", "f">>
UpperHex == <<"0", "1", "2", "3", "4", "5", "6", "7", "8", "9", "A", "B", "C", "D", "E", "F">>
IsBaseDigit(c, base) ==
  \E i \in 1..base : HexDigits[i] = c \/ UpperHex[i] = c
BaseDigitVal(c) ==
  (CHOOSE i \in 1..16 : HexDigits[i] = c \/ UpperHex[i] = c) - 1

RECURSIVE BaseToNat(_, _, _)
BaseToNat(cs, base, acc) ==
  IF cs = <<>> THEN acc
  ELSE BaseToNat(Tail(cs), base, acc * base + BaseDigitVal(Head(cs)))

\* The base a prefix 0x, 0o or 0b announces, 0 for any other string.
Radix(cs) ==
  IF Len(cs) < 3 \/ cs[1] # "0" THEN 0
  ELSE CASE cs[2] \in {"x", "X"} -> 16
         [] cs[2] \in {"o", "O"} -> 8
         [] cs[2] \in {"b", "B"} -> 2
         [] OTHER -> 0

\* m / 10^k, for a quotient that is an integer: the numbers of the model
\* are the integers, and a division that leaves a fraction has no value
\* here.
RECURSIVE Shrunk(_, _)
Shrunk(m, k) ==
  IF m = 0 \/ k = 0 THEN m
  ELSE Shrunk(CHOOSE q \in {m \div 10} : 10 * q = m, k - 1)

\* The position of the exponent mark of a literal, 0 when it has none.
ExponentAt(cs) ==
  IF \E i \in 1..Len(cs) : cs[i] \in {"e", "E"}
  THEN CHOOSE i \in 1..Len(cs) :
         cs[i] \in {"e", "E"} /\ \A j \in 1..(i - 1) : cs[j] \notin {"e", "E"}
  ELSE 0

\* An unsigned decimal literal: digits, then an optional exponent part of
\* e or E, an optional "-" or "+" and digits.
IsDecimal(cs) ==
  LET e == ExponentAt(cs)
      exp == SubSeq(cs, e + 1, Len(cs))
  IN IF e = 0 THEN AllDigits(cs)
     ELSE /\ AllDigits(SubSeq(cs, 1, e - 1))
          /\ AllDigits(IF exp # <<>> /\ Head(exp) \in {"-", "+"}
                       THEN Tail(exp) ELSE exp)

\* The value of a decimal literal of the given sign.
DecimalValue(sign, cs) ==
  LET e == ExponentAt(cs)
      mantissa == DigitsToNat(IF e = 0 THEN cs ELSE SubSeq(cs, 1, e - 1), 0)
      exp == SubSeq(cs, e + 1, Len(cs))
  IN IF e = 0 \/ mantissa = 0 THEN Finite(sign * mantissa)
     ELSE IF Head(exp) = "-"
          THEN Finite(sign * Shrunk(mantissa, DigitsToNat(Tail(exp), 0)))
     ELSE Scaled(sign * mantissa,
                 DigitsToNat(IF Head(exp) = "+" THEN Tail(exp) ELSE exp, 0))

Infinity == <<"I", "n", "f", "i", "n", "i", "t", "y">>

\* Number(s) for a string over the alphabet digits, letters, "#", "-", "+",
\* "," (no blank or "."): the empty string is 0; Infinity with an optional
\* sign; a literal with the prefix 0x, 0o or 0b, which takes no sign; an
\* optionally signed decimal literal with an optional exponent; anything
\* else is NaN.  Mantissas and values of prefixed literals fit the 32-bit
\* integers, and exponents stay below the 308 at which a double overflows.
StrToNumber(cs) ==
  LET body == IF cs # <<>> /\ Head(cs) \in {"-", "+"} THEN Tail(cs) ELSE cs
      sign == IF cs # <<>> /\ Head(cs) = "-" THEN -1 ELSE 1
  IN IF cs = <<>> THEN Finite(0)
     ELSE IF body = Infinity THEN Infinite(sign)
     ELSE IF Radix(cs) # 0
          THEN IF \A i \in 3..Len(cs) : IsBaseDigit(cs[i], Radix(cs))
               THEN Finite(BaseToNat(SubSeq(cs, 3, Len(cs)), Radix(cs), 0))
               ELSE NaN
     ELSE IF IsDecimal(body) THEN DecimalValue(sign, body)
     ELSE NaN


\* Array.prototype.join(sep) on an array of strings.
RECURSIVE Join(_, _)
Join(els, sep) ==
  IF els = <<>> THEN <<>>
  ELSE IF Len(els) = 1 THEN els[1]
  ELSE els[1] \o sep \o Join(Tail(els), sep)

\* A character outside the Basic Multilingual Plane, written as its escape:
\* one character, two UTF-16 code units.
Astral == "\\uD83D\\uDE00"
Units(c) == IF c = Astral THEN 2 ELSE 1

\* String.prototype.length: the number of UTF-16 code units.
RECURSIVE Length(_)
Length(cs) == IF cs = <<>> THEN 0 ELSE Units(Head(cs)) + Length(Tail(cs))

\* The characters of a TLA+ string.
Chars(str) == [i \in 1..Len(str) |-> SubSeq(str, i, i)]

\* The values a plain object inherits: the built-in function of the given
\* name, and Object.prototype itself.
Function(name) == [Undefined EXCEPT !.k = "function", !.s = Chars(name)]
ObjectPrototype == [Undefined EXCEPT !.k = "object"]

\* String(x)
ToStr(v) ==
  CASE v.k = "undefined" -> <<"u","n","d","e","f","i","n","e","d">>
    [] v.k = "null"      -> <<"n","u","l","l">>
    [] v.k = "number"    -> NumberToString(v.n, v.e)
    [] v.k = "boolean"   -> IF v.b THEN <<"t","r","u","e">>
                                   ELSE <<"f","a","l","s","e">>
    [] v.k = "string"    -> v.s
    [] v.k = "array"     -> Join(v.a, <<",">>)
    [] v.k = "function"  -> Chars("function ") \o v.s
                            \o Chars("() { [native code] }")
    [] v.k = "object"    -> Chars("[object Object]")

\* Number(x)
ToNumber(v) ==
  CASE v.k = "undefined" -> NaN
    [] v.k = "null"      -> Finite(0)
    [] v.k = "number"    -> [Finite(v.n) EXCEPT !.e = v.e]
    [] v.k = "boolean"   -> Finite(IF v.b THEN 1 ELSE 0)
    [] v.k = "string"    -> StrToNumber(v.s)
    [] v.k = "array"     -> StrToNumber(Join(v.a, <<",">>))
    [] v.k \in {"function", "object"} -> NaN

\* Boolean(x), and the falsiness test of `!x`.
ToBoolean(v) ==
  CASE v.k = "undefined" -> FALSE
    [] v.k = "null"      -> FALSE
    [] v.k = "number"    -> v.n # 0
    [] v.k = "boolean"   -> v.b
    [] v.k = "string"    -> v.s # <<>>
    [] v.k \in {"array", "function", "object"} -> TRUE

\* A tuple of characters as one TLA+ string, for messages.
RECURSIVE Text(_)
Text(cs) == IF cs = <<>> THEN "" ELSE Head(cs) \o Text(Tail(cs))

(***************************************************************************)
(* Validation rules.  `validation` is the nested schema path               *)
(* {min, max, pattern, options, required}; hasMin / hasMax say whether     *)
(* min / max are set (!== undefined).  A pattern is the regular expression *)
(* given by its anchors and the sequence of character classes it matches   *)
(* one character each; has = FALSE is the absent (falsy) pattern.          *)
(***************************************************************************)
NoPattern == [has |-> FALSE, anchorStart |-> FALSE, anchorEnd |-> FALSE,
              classes |-> <<>>]

\* new RegExp(pattern).test(str): a search for a match anywhere in str
\* unless the pattern itself carries ^ / $.
RegExpTest(p, cs) ==
  LET L == Len(p.classes)
      starts == IF p.anchorStart THEN {1} ELSE 1..(Len(cs) + 1)
  IN \E i \in starts :
       /\ i + L - 1 <= Len(cs)
       /\ p.anchorEnd => (i + L - 1 = Len(cs))
       /\ \A j \in 1..L : cs[i + j - 1] \in p.classes[j]

\* Array.prototype.includes on an array of strings.
Includes(els, e) == \E i \in 1..Len(els) : els[i] = e

\* value.filter(v => !validation.options.includes(v))
RECURSIVE FilterNotIn(_, _)
FilterNotIn(els, options) ==
  IF els = <<>> THEN <<>>
  ELSE IF Includes(options, Head(els)) THEN FilterNotIn(Tail(els), options)
  ELSE <<Head(els)>> \o FilterNotIn(Tail(els), options)

RequiredErrors(validation, value) ==
  IF validation.required
     /\ (value.k = "null" \/ value.k = "undefined" \/ value = Str(<<>>))
  THEN <<"This field is required">> ELSE <<>>

\* Mutant of NumberErrors: the upper bound itself is refused.
NumberErrors_ExclusiveMax(validation, value) ==
  LET numValue == ToNumber(value) IN
  IF numValue.nan THEN <<"Value must be a valid number">>
  ELSE (IF validation.hasMin /\ LessThan(numValue, validation.min)
        THEN <<"Value must be at least " \o ToString(validation.min)>>
        ELSE <<>>)
       \o
       (IF validation.hasMax /\ (GreaterThan(numValue, validation.max)
                                 \/ numValue = Finite(validation.max))
        THEN <<"Value must be at most " \o ToString(validation.max)>>
        ELSE <<>>)

NumberErrors(validation, value) ==
  LET numValue == ToNumber(value) IN
  IF numValue.nan THEN <<"Value must be a valid number">>
  ELSE (IF validation.hasMin /\ LessThan(numValue, validation.min)
        THEN <<"Value must be at least " \o ToString(validation.min)>>
        ELSE <<>>)
       \o
       (IF validation.hasMax /\ GreaterThan(numValue, validation.max)
        THEN <<"Value must be at most " \o ToString(validation.max)>>
        ELSE <<>>)

\* Mutant of StringErrors: the length is counted in characters.
StringErrors_CountsCharacters(validation, value) ==
  LET strValue == ToStr(value) IN
  (IF validation.hasMin /\ Len(strValue) < validation.min
   THEN <<"Value must be at least " \o ToString(validation.min)
            \o " characters">>
   ELSE <<>>)
  \o
  (IF validation.hasMax /\ Len(strValue) > validation.max
   THEN <<"Value must be at most " \o ToString(validation.max)
            \o " characters">>
   ELSE <<>>)
  \o
  (IF validation.pattern.has /\ ~RegExpTest(validation.pattern, strValue)
   THEN <<"Value does not match required pattern">>
   ELSE <<>>)

StringErrors(validation, value) ==
  LET strValue == ToStr(value) IN
  (IF validation.hasMin /\ Length(strValue) < validation.min
   THEN <<"Value must be at least " \o ToString(validation.min)
            \o " characters">>
   ELSE <<>>)
  \o
  (IF validation.hasMax /\ Length(strValue) > validation.max
   THEN <<"Value must be at most " \o ToString(validation.max)
            \o " characters">>
   ELSE <<>>)
  \o
  (IF validation.pattern.has /\ ~RegExpTest(validation.pattern, strValue)
   THEN <<"Value does not match required pattern">>
   ELSE <<>>)

\* Mutant of ArrayErrors: only the first element outside options is named.
ArrayErrors_NamesFirstOnly(validation, value) ==
  IF value.k # "array" THEN <<"Value must be an array">>
  ELSE LET invalidOptions == FilterNotIn(value.a, validation.options) IN
       IF Len(invalidOptions) > 0
       THEN <<"Invalid options: " \o Text(invalidOptions[1])>>
       ELSE <<>>

\* `validation.options` is an array path of the schema and so is always an
\* array (empty when not given), which is truthy.
ArrayErrors(validation, value) ==
  IF value.k # "array" THEN <<"Value must be an array">>
  ELSE LET invalidOptions == FilterNotIn(value.a, validation.options) IN
       IF Len(invalidOptions) > 0
       THEN <<"Invalid options: " \o Text(Join(invalidOptions, <<",", " ">>))>>
       ELSE <<>>

\* Mutant of validateValue: it stops at the first violated rule.
validateValue_FirstErrorOnly(doc, value) ==
  LET errors ==
        RequiredErrors(doc.validation, value)
        \o (IF doc.type = "number" THEN NumberErrors(doc.validation, value)
            ELSE <<>>)
        \o (IF doc.type = "string" THEN StringErrors(doc.validation, value)
            ELSE <<>>)
        \o (IF doc.type = "array" THEN ArrayErrors(doc.validation, value)
            ELSE <<>>)
  IN [isValid |-> Len(errors) = 0,
      errors |-> IF Len(errors) > 1 THEN <<errors[1]>> ELSE errors]

\* ConfigurationSchema.methods.validateValue
validateValue(doc, value) ==
  LET errors ==
        RequiredErrors(doc.validation, value)
        \o (IF doc.type = "number" THEN NumberErrors(doc.validation, value)
            ELSE <<>>)
        \o (IF doc.type = "string" THEN StringErrors(doc.validation, value)
            ELSE <<>>)
        \o (IF doc.type = "array" THEN ArrayErrors(doc.validation, value)
            ELSE <<>>)
  IN [isValid |-> Len(errors) = 0, errors |-> errors]

\* JSON.parse(s) over the alphabet of StrToNumber: the literals null, true
\* and false and an optionally negated decimal literal without leading zeros,
\* with an optional exponent, are JSON; throws marks a SyntaxError.
JSONParse(cs) ==
  LET body == IF cs # <<>> /\ Head(cs) = "-" THEN Tail(cs) ELSE cs
      sign == IF body = cs THEN 1 ELSE -1
      int == IF ExponentAt(body) = 0 THEN body
             ELSE SubSeq(body, 1, ExponentAt(body) - 1)
      Parsed(v) == [throws |-> FALSE, value |-> v]
  IN IF cs = <<"n", "u", "l", "l">> THEN Parsed(Null)
     ELSE IF cs = <<"t", "r", "u", "e">> THEN Parsed(Bool(TRUE))
     ELSE IF cs = <<"f", "a", "l", "s", "e">> THEN Parsed(Bool(FALSE))
     ELSE IF IsDecimal(body) /\ (Len(int) = 1 \/ Head(int) # "0")
          THEN Parsed(AsValue(DecimalValue(sign, body)))
     ELSE [throws |-> TRUE, value |-> Undefined]

\* The virtual `formattedValue`, as res.json serialises it (NaN and the
\* infinities -> null).
formattedValue(doc) ==
  CASE doc.type = "json" ->
         IF doc.value.k = "string" THEN JSONParse(doc.value.s)
         ELSE [throws |-> FALSE, value |-> doc.value]
    [] doc.type = "array" ->
         [throws |-> FALSE,
          value |-> IF doc.value.k = "array" THEN doc.value ELSE Arr(<<>>)]
    [] doc.type = "number" ->
         [throws |-> FALSE,
          value |-> IF ToNumber(doc.value).nan \/ ToNumber(doc.value).inf # 0
                    THEN Null
                    ELSE AsValue(ToNumber(doc.value))]
    [] doc.type = "boolean" ->
         [throws |-> FALSE, value |-> Bool(ToBoolean(doc.value))]
    [] OTHER ->
         [throws |-> FALSE, value |-> Str(ToStr(doc.value))]

(***************************************************************************)
(* Bounds of the model.                                                    *)
(***************************************************************************)
NumSlots == 2      \* requests that can be in flight at the same time
MaxSerial == 3     \* requests and runs of the seed script started in a
                   \* behaviour that serves them one at a time, a bulk-update
                   \* counting once per item
MaxRequests == 2   \* the same, in a behaviour in which two of them overlap
MaxBulk == 2       \* longest bulk-update list

Slots == 1..NumSlots

(***************************************************************************)
(* Users and callers (middleware/auth).                                    *)
(***************************************************************************)
Users == [admin1   |-> [role |-> "admin",      isActive |-> TRUE],
          admin2   |-> [role |-> "admin",      isActive |-> TRUE],
          teacher1 |-> [role |-> "instructor", isActive |-> TRUE],
          student1 |-> [role |-> "student",    isActive |-> TRUE],
          retired1 |-> [role |-> "admin",      isActive |-> FALSE]]

\* A caller is the Authorization header of the request: absent, a token
\* jwt.verify rejects, or a token that decodes to a userId ("ghost" is the
\* id of a user that no longer exists).
NoToken == [present |-> FALSE, valid |-> FALSE, userId |-> ""]
BadToken == [present |-> TRUE, valid |-> FALSE, userId |-> ""]
TokenFor(u) == [present |-> TRUE, valid |-> TRUE, userId |-> u]
Callers == {NoToken, BadToken}
           \cup {TokenFor(u) : u \in {"admin2", "student1", "retired1",
                                      "ghost"}}

Pass(u) == [ok |-> TRUE, status |-> 200, message |-> "", user |-> u]
Deny(st, m) == [ok |-> FALSE, status |-> st, message |-> m, user |-> ""]

\* const auth = async (req, res, next) => ...
auth(caller) ==
  IF ~caller.present THEN Deny(401, "No token, authorization denied")
  ELSE IF ~caller.valid THEN Deny(401, "Token is not valid")
  ELSE IF caller.userId \notin DOMAIN Users
       THEN Deny(401, "Token is not valid")
  ELSE IF ~Users[caller.userId].isActive
       THEN Deny(401, "Account is deactivated")
  ELSE Pass(caller.userId)

\* roles.join(' or ')
RECURSIVE JoinRoles(_)
JoinRoles(roles) ==
  IF roles = <<>> THEN ""
  ELSE IF Len(roles) = 1 THEN roles[1]
  ELSE roles[1] \o " or " \o JoinRoles(Tail(roles))

\* Mutant of authorize: any authenticated user is let through.
authorize_AnyRole(roles, a) == a

\* const authorize = (...roles) => (req, res, next) => ...; req.user is set
\* whenever auth let the request through.
authorize(roles, a) ==
  IF ~a.ok THEN a
  ELSE IF \A i \in 1..Len(roles) : roles[i] # Users[a.user].role
       THEN Deny(403, "Access denied. Required role: " \o JoinRoles(roles))
  ELSE a

\* The middleware chain [auth, authorize('admin')] of every guarded route.
AdminGuard(caller) == authorize(<<"admin">>, auth(caller))

(***************************************************************************)
(* Schema.                                                                 *)
(***************************************************************************)
Types == {"string", "number", "boolean", "array", "object", "json"}
Categories == {"system", "course", "user", "assignment", "attendance",
               "notification", "email", "file_upload", "security", "ui",
               "analytics"}

Absent == "<absent>"
NoTags == [given |-> FALSE, v |-> <<>>]
Tags(t) == [given |-> TRUE, v |-> t]

\* The validation object of a request body or seed entry: each rule may be
\* left out.
Rules(hasMin, min, hasMax, max) ==
  [hasMin |-> hasMin, min |-> min, hasMax |-> hasMax, max |-> max,
   pattern |-> NoPattern, hasOptions |-> FALSE, options |-> <<>>,
   hasRequired |-> FALSE, required |-> FALSE]
NoRules == Rules(FALSE, 0, FALSE, 0)

\* The `validation` path as the schema builds it: options defaults to the
\* empty array, required defaults to true.
SchemaValidation(r) ==
  [hasMin |-> r.hasMin, min |-> r.min, hasMax |-> r.hasMax, max |-> r.max,
   pattern |-> r.pattern,
   options |-> IF r.hasOptions THEN r.options ELSE <<>>,
   required |-> IF r.hasRequired THEN r.required ELSE TRUE]

\* String.prototype.trim, the setter of a path with `trim: true`; the blank
\* is the only white space of the model's strings.
RECURSIVE TrimStart(_)
TrimStart(str) ==
  IF Len(str) > 0 /\ SubSeq(str, 1, 1) = " "
  THEN TrimStart(SubSeq(str, 2, Len(str)))
  ELSE str

RECURSIVE TrimEnd(_)
TrimEnd(str) ==
  IF Len(str) > 0 /\ SubSeq(str, Len(str), Len(str)) = " "
  THEN TrimEnd(SubSeq(str, 1, Len(str) - 1))
  ELSE str

trim(str) == TrimEnd(TrimStart(str))

\* The cast of a Boolean path (Mongoose castBoolean): convertToTrue is
\* [true, 'true', 1, '1', 'yes'], convertToFalse is [false, 'false', 0, '0',
\* 'no'], null is kept, anything else is a CastError.
convertToTrue ==
  {Bool(TRUE), Str(<<"t", "r", "u", "e">>), Num(1), Str(<<"1">>),
   Str(<<"y", "e", "s">>)}
convertToFalse ==
  {Bool(FALSE), Str(<<"f", "a", "l", "s", "e">>), Num(0), Str(<<"0">>),
   Str(<<"n", "o">>)}
castBoolean(v) ==
  IF v \in convertToTrue THEN [ok |-> TRUE, value |-> Bool(TRUE)]
  ELSE IF v \in convertToFalse THEN [ok |-> TRUE, value |-> Bool(FALSE)]
  ELSE IF v.k \in {"null", "undefined"} THEN [ok |-> TRUE, value |-> v]
  ELSE [ok |-> FALSE, value |-> Undefined]

\* typeof v, and v as a CastError message prints it.
TypeOf(v) == IF v.k = "array" THEN "object" ELSE v.k
Quoted(v) == IF v.k = "string" THEN "\"" \o Text(v.s) \o "\""
             ELSE Text(ToStr(v))

\* The CastError a Boolean path records when a value set on it cannot be
\* cast, as the entry of a ValidationError's message.
CastErrors(path, v) ==
  IF castBoolean(v).ok THEN <<>>
  ELSE <<path \o ": Cast to Boolean failed for value " \o Quoted(v)
         \o " (type " \o TypeOf(v) \o ") at path \"" \o path \o "\"">>

\* A value set on a Boolean path with a default: undefined gives the
\* default, a value that cannot be cast leaves the path as it is.
SetBoolean(v, current) ==
  IF v.k = "undefined" \/ ~castBoolean(v).ok THEN current
  ELSE castBoolean(v).value

\* new Configuration({...}): key and description are trimmed, isPublic and
\* isEditable cast; schema defaults isPublic = false, isEditable = true,
\* tags = [], version = 1; __v is the versionKey Mongoose adds to every
\* document, 0 on insert.
NewConfiguration(id, b, userId) ==
  [_id |-> id, key |-> trim(b.key), value |-> b.value, type |-> b.type,
   category |-> b.category, description |-> trim(b.description),
   isPublic |-> SetBoolean(b.isPublic, Bool(FALSE)),
   isEditable |-> SetBoolean(b.isEditable, Bool(TRUE)),
   validation |-> SchemaValidation(b.validation),
   defaultValue |-> b.defaultValue,
   lastModifiedBy |-> userId,
   tags |-> b.tags.v,
   version |-> 1,
   __v |-> 0]

NoDoc == [_id |-> 0, key |-> "", value |-> Undefined, type |-> "string",
          category |-> "system", description |-> "",
          isPublic |-> Bool(FALSE), isEditable |-> Bool(FALSE), validation |-> SchemaValidation(NoRules),
          defaultValue |-> Undefined, lastModifiedBy |-> "", tags |-> <<>>,
          version |-> 0, __v |-> 0]

(***************************************************************************)
(* Request inputs.                                                         *)
(***************************************************************************)
Body(key, value, type, category, descr, isPublic, isEditable, rules, dflt, tags) ==
  [key |-> key, value |-> value, type |-> type, category |-> category,
   description |-> descr, isPublic |-> isPublic,
   isEditable |-> isEditable, validation |-> rules,
   defaultValue |-> dflt, tags |-> tags]

NoBody == Body("", Undefined, "", "", "", Undefined, Undefined, NoRules,
               Undefined, NoTags)

\* [0-9A-Fa-f]
HexDigit == {"0", "1", "2", "3", "4", "5", "6", "7", "8", "9",
             "a", "b", "c", "d", "e", "f", "A", "B", "C", "D", "E", "F"}

\* A pattern string as the RegExp it compiles to.
Pattern(anchorStart, anchorEnd, classes) ==
  [has |-> TRUE, anchorStart |-> anchorStart, anchorEnd |-> anchorEnd,
   classes |-> classes]

\* validation: { pattern: '^#[0-9A-Fa-f]{6}$' }
ColourRules ==
  [NoRules EXCEPT !.pattern =
     Pattern(TRUE, TRUE, <<{"#"}, HexDigit, HexDigit, HexDigit, HexDigit,
                           HexDigit, HexDigit>>)]

\* validation: { options: [...] }
OptionRules(options) ==
  [NoRules EXCEPT !.hasOptions = TRUE, !.options = options]

SiteName ==
  Str(<<"E", "d", "u", "M", "a", "n", "a", "g", "e">>)
SiteDescription ==
  Str(<<"C", "o", "m", "p", "r", "e", "h", "e", "n", "s", "i", "v", "e",
  " ", "C", "o", "u", "r", "s", "e", " ", "M", "a", "n", "a", "g", "e", "m",
  "e", "n", "t", " ", "S", "y", "s", "t", "e", "m">>)
FileTypes ==
  Arr(<<<<"p", "d", "f">>, <<"d", "o", "c">>, <<"d", "o", "c", "x">>, <<"p",
  "p", "t">>, <<"p", "p", "t", "x">>, <<"t", "x", "t">>, <<"j", "p", "g">>,
  <<"j", "p", "e", "g">>, <<"p", "n", "g">>, <<"g", "i", "f">>, <<"m", "p",
  "4">>, <<"a", "v", "i">>, <<"m", "o", "v">>>>)
ThemePrimaryColor ==
  Str(<<"#", "3", "B", "8", "2", "F", "6">>)
ThemeSecondaryColor ==
  Str(<<"#", "1", "0", "B", "9", "8", "1">>)
Widgets ==
  Arr(<<<<"r", "e", "c", "e", "n", "t", "_", "a", "c", "t", "i", "v", "i",
  "t", "y">>, <<"c", "o", "u", "r", "s", "e", "_", "s", "t", "a", "t",
  "s">>, <<"a", "s", "s", "i", "g", "n", "m", "e", "n", "t", "_", "d", "e",
  "a", "d", "l", "i", "n", "e", "s">>, <<"a", "t", "t", "e", "n", "d", "a",
  "n", "c", "e", "_", "s", "u", "m", "m", "a", "r", "y">>>>)

\* const defaultConfigurations = [...]: the list of the seed script.
defaultConfigurations ==
  << Body("site_name", SiteName, "string", "system",
          "Name of the educational management system", Bool(TRUE),
          Bool(TRUE), Rules(TRUE, 1, TRUE, 100), SiteName,
          Tags(<<"branding", "ui">>)),
     Body("site_description", SiteDescription, "string", "system",
          "Description of the system", Bool(TRUE), Bool(TRUE), Rules(TRUE,
          10, TRUE, 500), SiteDescription, Tags(<<"branding", "ui">>)),
     Body("maintenance_mode", Bool(FALSE), "boolean", "system",
          "Enable maintenance mode to restrict access", Bool(TRUE),
          Bool(TRUE), NoRules, Bool(FALSE), Tags(<<"maintenance",
          "system">>)),
     Body("max_file_size", Num(10485760), "number", "file_upload",
          "Maximum file upload size in bytes (10MB)", Bool(TRUE),
          Bool(TRUE), Rules(TRUE, 1048576, TRUE, 104857600), Num(10485760),
          Tags(<<"upload", "files">>)),
     Body("allowed_file_types", FileTypes, "array",
          "file_upload", "Allowed file types for uploads", Bool(TRUE),
          Bool(TRUE), OptionRules(<<<<"p", "d", "f">>, <<"d", "o", "c">>,
          <<"d", "o", "c", "x">>, <<"p", "p", "t">>, <<"p", "p", "t", "x">>,
          <<"t", "x", "t">>, <<"j", "p", "g">>, <<"j", "p", "e", "g">>,
          <<"p", "n", "g">>, <<"g", "i", "f">>, <<"m", "p", "4">>, <<"a",
          "v", "i">>, <<"m", "o", "v">>, <<"z", "i", "p">>, <<"r", "a",
          "r">>>>), FileTypes, Tags(<<"upload", "files",
          "security">>)),
     Body("max_course_capacity", Num(50), "number", "course",
          "Maximum number of students per course", Bool(TRUE), Bool(TRUE),
          Rules(TRUE, 1, TRUE, 1000), Num(50), Tags(<<"course",
          "enrollment">>)),
     Body("course_approval_required", Bool(TRUE), "boolean", "course",
          "Require admin approval for new courses", Bool(TRUE), Bool(TRUE),
          NoRules, Bool(TRUE), Tags(<<"course", "approval">>)),
     Body("instructor_verification_required", Bool(TRUE), "boolean",
          "user", "Require document verification for instructors",
          Bool(TRUE), Bool(TRUE), NoRules, Bool(TRUE), Tags(<<"user",
          "verification", "instructor">>)),
     Body("student_registration_open", Bool(TRUE), "boolean", "user",
          "Allow new student registrations", Bool(TRUE), Bool(TRUE),
          NoRules, Bool(TRUE), Tags(<<"user", "registration", "student">>)),
     Body("instructor_registration_open", Bool(TRUE), "boolean",
          "user", "Allow new instructor registrations", Bool(TRUE),
          Bool(TRUE), NoRules, Bool(TRUE), Tags(<<"user", "registration",
          "instructor">>)),
     Body("assignment_late_penalty", Num(10), "number", "assignment",
          "Late submission penalty percentage", Bool(TRUE), Bool(TRUE),
          Rules(TRUE, 0, TRUE, 100), Num(10), Tags(<<"assignment",
          "grading">>)),
     Body("assignment_auto_grade", Bool(FALSE), "boolean",
          "assignment", "Enable automatic grading for assignments",
          Bool(TRUE), Bool(TRUE), NoRules, Bool(FALSE), Tags(<<"assignment",
          "grading", "automation">>)),
     Body("attendance_required_percentage", Num(75), "number",
          "attendance", "Minimum attendance percentage required",
          Bool(TRUE), Bool(TRUE), Rules(TRUE, 0, TRUE, 100), Num(75),
          Tags(<<"attendance", "requirements">>)),
     Body("email_notifications_enabled", Bool(TRUE), "boolean",
          "notification", "Enable email notifications", Bool(TRUE),
          Bool(TRUE), NoRules, Bool(TRUE), Tags(<<"notification",
          "email">>)),
     Body("push_notifications_enabled", Bool(TRUE), "boolean",
          "notification", "Enable push notifications", Bool(TRUE),
          Bool(TRUE), NoRules, Bool(TRUE), Tags(<<"notification", "push">>)),
     Body("session_timeout", Num(3600), "number", "security",
          "Session timeout in seconds (1 hour)", Bool(FALSE), Bool(TRUE),
          Rules(TRUE, 300, TRUE, 86400), Num(3600), Tags(<<"security",
          "session">>)),
     Body("password_min_length", Num(8), "number", "security",
          "Minimum password length", Bool(TRUE), Bool(TRUE), Rules(TRUE, 6,
          TRUE, 32), Num(8), Tags(<<"security", "password">>)),
     Body("max_login_attempts", Num(5), "number", "security",
          "Maximum login attempts before lockout", Bool(FALSE), Bool(TRUE),
          Rules(TRUE, 3, TRUE, 10), Num(5), Tags(<<"security", "login">>)),
     Body("theme_primary_color", ThemePrimaryColor, "string", "ui",
          "Primary theme color (hex)", Bool(TRUE), Bool(TRUE), ColourRules,
          ThemePrimaryColor, Tags(<<"ui", "theme", "colors">>)),
     Body("theme_secondary_color", ThemeSecondaryColor, "string", "ui",
          "Secondary theme color (hex)", Bool(TRUE), Bool(TRUE),
          ColourRules, ThemeSecondaryColor, Tags(<<"ui", "theme",
          "colors">>)),
     Body("dashboard_widgets", Widgets, "array", "ui",
          "Available dashboard widgets", Bool(TRUE), Bool(TRUE),
          OptionRules(<<<<"r", "e", "c", "e", "n", "t", "_", "a", "c", "t",
          "i", "v", "i", "t", "y">>, <<"c", "o", "u", "r", "s", "e", "_",
          "s", "t", "a", "t", "s">>, <<"a", "s", "s", "i", "g", "n", "m",
          "e", "n", "t", "_", "d", "e", "a", "d", "l", "i", "n", "e", "s">>,
          <<"a", "t", "t", "e", "n", "d", "a", "n", "c", "e", "_", "s", "u",
          "m", "m", "a", "r", "y">>, <<"g", "r", "a", "d", "e", "_", "c",
          "h", "a", "r", "t">>, <<"a", "n", "n", "o", "u", "n", "c", "e",
          "m", "e", "n", "t", "s">>>>), Widgets, Tags(<<"ui",
          "dashboard", "widgets">>)),
     Body("analytics_tracking_enabled", Bool(TRUE), "boolean",
          "analytics", "Enable analytics tracking", Bool(FALSE), Bool(TRUE),
          NoRules, Bool(TRUE), Tags(<<"analytics", "tracking">>)),
     Body("data_retention_days", Num(365), "number", "analytics",
          "Data retention period in days", Bool(FALSE), Bool(TRUE),
          Rules(TRUE, 30, TRUE, 2555), Num(365), Tags(<<"analytics", "data",
          "retention">>)) >>

\* Bodies of POST /api/configurations the model sends.
CreateLocked ==
  Body("custom_limit", Num(20), "number", "course", "Locked limit",
       Undefined, Bool(FALSE), Rules(TRUE, 0, TRUE, 100), Num(10), NoTags)
CreateBadDefault ==
  Body("custom_limit", Num(50), "number", "course", " Limit ",
       Bool(TRUE), Undefined, Rules(TRUE, 0, TRUE, 100), Num(150), NoTags)
CreateRawJson ==
  Body("custom_limit", Str(<<"a">>), "json", "ui", "Raw json",
       Bool(TRUE), Undefined, NoRules, Undefined, Tags(<<"raw">>))
CreateDuplicate ==
  Body("assignment_late_penalty", Num(20), "number", "assignment",
       "Another penalty", Null, Num(1), Rules(TRUE, 0, TRUE, 100),
       Num(20), NoTags)
CreateNoDescription ==
  Body("custom_limit", Num(20), "number", "course", "",
       Undefined, Undefined, NoRules, Undefined, NoTags)
CreateInvalidValue ==
  Body("custom_limit", Num(150), "number", "course", "Limit",
       Undefined, Undefined, Rules(TRUE, 0, TRUE, 100), Undefined, NoTags)

CreateBlankDescription ==
  Body("custom_limit", Num(20), "number", "course", "  ",
       Undefined, Undefined, NoRules, Undefined, NoTags)

CreateBodies == {CreateLocked, CreateBadDefault, CreateRawJson,
                 CreateDuplicate, CreateNoDescription, CreateInvalidValue,
                 CreateBlankDescription}

Keys == {"maintenance_mode", "assignment_late_penalty", "custom_limit"}

\* Values a PUT or a bulk-update item carries (Undefined: no value field).
Values == {Num(15), Num(150)}

\* Bodies of PUT /:key: a value or none, with or without the other three
\* fields, the two bodies the request validators refuse and one whose
\* isPublic cannot be cast.
\* The body of a PUT: the four fields the handler reads, and the other
\* fields of an entry the body may carry as well.
NoOthers == [key |-> Absent, type |-> Absent, category |-> Absent,
             isEditable |-> Undefined, defaultValue |-> Undefined,
             validation |-> NoRules]
PutBody(value, description, isPublic, tags) ==
  [value |-> value, description |-> description, isPublic |-> isPublic,
   tags |-> tags, others |-> NoOthers]
Overposted(b) ==
  [b EXCEPT !.others = [key |-> "renamed", type |-> "string",
                        category |-> "ui", isEditable |-> Bool(FALSE),
                        defaultValue |-> Num(99),
                        validation |-> Rules(TRUE, 0, TRUE, 1000)]]
PutBodies ==
  {Overposted(PutBody(Num(15), Absent, Undefined, NoTags))} \cup
  {PutBody(v, Absent, Undefined, NoTags) : v \in Values \cup {Undefined}}
  \cup {PutBody(v, " Edited ", Str(<<"f", "a", "l", "s", "e">>),
                  Tags(<<"audit">>)) :
          v \in Values \cup {Undefined}}
  \cup {PutBody(Str(<<>>), Absent, Undefined, NoTags),
        PutBody(Undefined, "", Undefined, NoTags),
        PutBody(Undefined, Absent, Str(<<"m", "a", "y", "b", "e">>), NoTags)}

Item(key, value) == [key |-> key, value |-> value]
BulkItems ==
  {Item("assignment_late_penalty", v) : v \in Values}
  \cup {Item("custom_limit", Num(15)), Item("unknown_key", Num(15)),
        Item("assignment_late_penalty", Str(<<>>)),
        Item("unknown_key", Str(<<>>))}
BulkLists == UNION {[1..n -> BulkItems] : n \in 0..MaxBulk}

CategoryQueries == {Absent, "", "system", "assignment", "course"}
GetPaths == {"/", "/categories", "/public", "/export"}
            \cup {"/" \o k : k \in Keys}

(***************************************************************************)
(* express-validator.                                                      *)
(***************************************************************************)
\* notEmpty(): the field, converted to a string the way the library does
\* (null and undefined give "", an array gives its first element), is not
\* the empty string.
notEmpty(v) ==
  CASE v.k = "undefined" -> FALSE
    [] v.k = "null"      -> FALSE
    [] v.k = "number"    -> TRUE
    [] v.k = "boolean"   -> TRUE
    [] v.k = "string"    -> v.s # <<>>
    [] v.k = "array"     -> v.a # <<>> /\ v.a[1] # <<>>

Check(ok, msg) == IF ok THEN <<>> ELSE <<msg>>

\* The validators of router.post('/').
CreateValidators(b) ==
  Check(b.key # "", "Key is required")
  \o Check(notEmpty(b.value), "Value is required")
  \o Check(b.type \in Types, "Invalid type")
  \o Check(b.category \in Categories, "Invalid category")
  \o Check(b.description # "", "Description is required")

\* The validators of router.put('/:key'): both fields are optional().
PutValidators(b) ==
  Check(b.value.k = "undefined" \/ notEmpty(b.value), "Value cannot be empty")
  \o Check(b.description # "", "Description cannot be empty")

\* The validators of router.post('/bulk-update'), one pass per wildcard.
RECURSIVE BulkKeyValidators(_)
BulkKeyValidators(items) ==
  IF items = <<>> THEN <<>>
  ELSE Check(Head(items).key # "", "Key is required for each configuration")
       \o BulkKeyValidators(Tail(items))

RECURSIVE BulkValueValidators(_)
BulkValueValidators(items) ==
  IF items = <<>> THEN <<>>
  ELSE Check(notEmpty(Head(items).value),
             "Value is required for each configuration")
       \o BulkValueValidators(Tail(items))

BulkValidators(items) == BulkKeyValidators(items) \o BulkValueValidators(items)

(***************************************************************************)
(* State.                                                                  *)
(***************************************************************************)
VARIABLES
  store,    \* the configurations collection: a set of documents
  slot,     \* per request slot, the handler in flight and its local state
  seed,     \* the position of the seed script
  resp,     \* the response the last step sent, NoResp when it sent none
  requests, \* requests started so far, counted as MaxSerial counts
  overlap,  \* history: some request or seed iteration started while
            \* another one was between its read and its write
  muts,     \* history: muts[id] counts the mutating requests on the
            \* document with _id = id that were answered with a success
            \* since its creation
  scenario, \* history: how far the requests sent since the seeded start
            \* follow PUT 15, PUT 150, reset on assignment_late_penalty
            \* (0 to 3 requests of it sent; 4 when another request was sent)
  probe,    \* a document, a candidate value and what validateValue returned
            \* for them
  client    \* the state of the ConfigurationProvider of one browser and
            \* its fetches of the public projection

vars == <<store, slot, seed, resp, requests, overlap, muts, scenario, probe, client>>

\* A slot also holds what a read found so far: the query and the page of
\* router.get('/'), and for each category of router.get('/categories') the
\* counts answered so far.
Idle == [pc |-> "idle", op |-> "", caller |-> NoToken, doc |-> NoDoc,
         orig |-> NoDoc, body |-> NoBody, cast |-> <<>>, list |-> <<>>,
         items |-> <<>>, results |-> <<>>, failed |-> <<>>,
         query |-> "", page |-> {}, stats |-> <<>>]

\* A count of router.get('/categories') that is not answered yet.
Pending == -1

\* The pagination object of router.get('/'); no other response has one.
NoPagination == [current |-> 0, pages |-> 0, total |-> 0, limit |-> 0]

NoResp == [op |-> "", caller |-> NoToken, key |-> "",
           status |-> 0, message |-> "", errors |-> <<>>, data |-> {},
           results |-> <<>>, failed |-> <<>>, pagination |-> NoPagination]

Response(s, op, caller, key, status, message) ==
  [NoResp EXCEPT !.op = op, !.caller = caller, !.key = key,
                 !.status = status, !.message = message]

\* No call of validateValue yet.
NoResult == [isValid |-> FALSE, errors |-> <<>>]
NoProbe == [doc |-> NoDoc, value |-> Undefined, result |-> NoResult,
            calls |-> 0]

\* ConfigurationProvider before its effect runs: useState({}), useState(true),
\* useState(null); fetches are the calls of fetchConfigurations so far.
ConfigurationProvider ==
  [mounted |-> FALSE, configurations |-> {}, loading |-> TRUE, error |-> "",
   fetches |-> <<>>]

\* The collection after one undisturbed run of the seed script.
Seeded ==
  {NewConfiguration(i, defaultConfigurations[i], "admin1") :
     i \in 1..Len(defaultConfigurations)}

\* The server starts on an empty collection, or on one the seed script has
\* already populated.
Init ==
  /\ \/ /\ store = {} /\ muts = <<>> /\ seed = [pc |-> "off", i |-> 0]
        /\ scenario = 4
     \/ /\ store = Seeded
        /\ muts = [i \in 1..Len(defaultConfigurations) |-> 0]
        /\ seed = [pc |-> "done", i |-> 0]
        /\ scenario = 0
  /\ slot = [s \in Slots |-> Idle]
  /\ resp = NoResp
  /\ requests = 0
  /\ overlap = FALSE
  /\ probe = NoProbe
  /\ client = ConfigurationProvider

(***************************************************************************)
(* The collection.                                                         *)
(***************************************************************************)
Exists(key) == \E d \in store : d.key = key

\* Configuration.findOne({ key })
FindOne(key) == IF Exists(key) THEN CHOOSE d \in store : d.key = key
                ELSE NoDoc

\* Mutant of UniqueKey: the collection has no unique index.
UniqueKey_NoIndex(st, key) == TRUE

\* The unique index on `key`: an insert of a key already stored is refused
\* (E11000).
UniqueKey(st, key) == \A d \in st : d.key # key

\* doc.isModified('value')
isModified(w, o) == w.value # o.value

\* Mutant of PreSave: the schema has no pre('save') hook.
PreSave_NoHook(w, modified) == TRUE

\* ConfigurationSchema.pre('save'): TRUE when the hook calls next() without
\* an error.
PreSave(w, modified) ==
  modified => validateValue(w, w.value).isValid

\* The schema's `required: true` on the Mixed path `value`, validated by
\* save() when the path is modified: null and undefined are refused.
RequiredValue(w, modified) ==
  modified => w.value.k \notin {"null", "undefined"}

\* errors.join(', ') on a list of messages.
JoinMessages(errors) ==
  Text(Join([i \in 1..Len(errors) |-> <<errors[i]>>], <<", ">>))

\* The backquote of Mongoose's messages, written as its escape.
Backquote == "\\u0060"

\* The entry of a ValidationError's message for a required path left
\* empty.
RequiredError(path) ==
  path \o ": Path " \o Backquote \o path \o Backquote \o " is required."

\* The validation save() runs before the hook, on a new document (o = NoDoc)
\* or on the modified paths of a loaded one: the CastErrors the setters
\* recorded, then `required` on key, value and description (a String path
\* is empty when it is ''); type, category and lastModifiedBy are always
\* given by the time a handler saves.
ValidationErrors(w, o, cast) ==
  cast
  \o (IF (o = NoDoc \/ w.key # o.key) /\ w.key = ""
      THEN <<RequiredError("key")>> ELSE <<>>)
  \o (IF ~RequiredValue(w, o = NoDoc \/ isModified(w, o))
      THEN <<RequiredError("value")>> ELSE <<>>)
  \o (IF (o = NoDoc \/ w.description # o.description) /\ w.description = ""
      THEN <<RequiredError("description")>> ELSE <<>>)

\* ValidationError.message
ValidationMessage(errors) ==
  "Configuration validation failed: " \o JoinMessages(errors)

\* save() of a new document: validation, the hook, then the insert.
CanInsert(doc) ==
  /\ ValidationErrors(doc, NoDoc, <<>>) = <<>>
  /\ PreSave(doc, TRUE)
  /\ UniqueKey(store, doc.key)

\* A save that $sets a whole array (tags, or a value that is an array) is
\* versioned by Mongoose: the update is conditioned on the __v the document
\* was loaded with and increments it.
SetsArray(w, o) ==
  \/ w.tags # o.tags
  \/ (w.value # o.value /\ w.value.k = "array")

\* The document the update of save() matches: by _id, and by __v when the
\* save is versioned.
Matched(w, o) ==
  {d \in store : d._id = w._id /\ (SetsArray(w, o) => d.__v = o.__v)}

\* Mutant of CanUpdate: save() is conditioned on the version that was read.
CanUpdate_ChecksVersion(w, o) ==
  /\ ValidationErrors(w, o, <<>>) = <<>>
  /\ PreSave(w, isModified(w, o))
  /\ \E d \in Matched(w, o) : d.version = o.version

\* save() of a loaded document w (loaded as o): the hook, then an update of
\* the paths that were modified; it fails when the hook fails or the update
\* matches no document.
CanUpdate(w, o) ==
  /\ ValidationErrors(w, o, <<>>) = <<>>
  /\ PreSave(w, isModified(w, o))
  /\ Matched(w, o) # {}

\* $set of the modified paths of w on the stored document, and $inc of __v
\* when the save is versioned.
Merge(cur, w, o) ==
  [f \in DOMAIN cur |->
     IF f = "__v" THEN (IF SetsArray(w, o) THEN cur[f] + 1 ELSE cur[f])
     ELSE IF w[f] # o[f] THEN w[f]
     ELSE cur[f]]

Updated(w, o) ==
  {IF d._id = w._id THEN Merge(d, w, o) ELSE d : d \in store}

\* The document in memory after its save(): a versioned save increments
\* its __v as well.
Saved(w, o) == [w EXCEPT !.__v = IF SetsArray(w, o) THEN @ + 1 ELSE @]

Bump(id) == [muts EXCEPT ![id] = @ + 1]

\* The error message save() fails with.
SaveError(w, o) ==
  IF ValidationErrors(w, o, <<>>) # <<>>
  THEN ValidationMessage(ValidationErrors(w, o, <<>>))
  ELSE IF ~PreSave(w, isModified(w, o))
  THEN "Validation failed: " \o JoinMessages(validateValue(w, w.value).errors)
  ELSE IF SetsArray(w, o) THEN "No matching document found for id"
  ELSE "No document found for query"

(***************************************************************************)
(* Requests.  CanStart(s): slot s is the first free slot.                  *)
(***************************************************************************)
\* No request is in flight.
Idling == \A s \in Slots : slot[s].pc = "idle"

\* Neither a request nor a run of the seed script is in flight.
Quiet == Idling /\ seed.pc \in {"off", "done"}

\* No run of the seed script is in flight, and no request but reads that
\* wait for the answer of a query: nothing in flight is going to write.
Reading ==
  /\ seed.pc \in {"off", "done"}
  /\ \A s \in Slots : slot[s].pc \in {"idle", "total", "count"}

\* The requests a behaviour may start: MaxSerial while they have been served
\* one at a time, MaxRequests once two of them overlap.
Budget == IF overlap \/ ~Quiet THEN MaxRequests ELSE MaxSerial

\* A request is served in the first free slot.
CanStart(s) ==
  /\ slot[s].pc = "idle"
  /\ \A r \in 1..(s - 1) : slot[r].pc # "idle"

\* A request or seed iteration that starts while another is in flight.
Overlap == overlap' = (overlap \/ ~Quiet)

\* The request sent is the next one of the sequence PUT 15, PUT 150, reset
\* on assignment_late_penalty, sent when nothing else is in flight; any other
\* request leaves the sequence.
Track(op, key, value) ==
  scenario' =
    IF ~Quiet \/ key # "assignment_late_penalty" THEN 4
    ELSE IF scenario = 0 /\ op = "update" /\ value = Num(15) THEN 1
    ELSE IF scenario = 1 /\ op = "update" /\ value = Num(150) THEN 2
    ELSE IF scenario = 2 /\ op = "reset" THEN 3
    ELSE 4

\* A request reads and writes the document of its own key only, and so
\* commutes with the iterations of the seed loop on the keys no request
\* names.  Every interleaving has the outcome of one in which requests
\* overlap only the iterations on Keys: those are the ones taken here.
Contested ==
  seed.pc \in {"off", "done"} \/ defaultConfigurations[seed.i].key \in Keys

\* The categories whose counts a request can change: those of the seeded
\* documents it can name and of the documents it can create.
Watched ==
  {defaultConfigurations[i].category :
     i \in {j \in DOMAIN defaultConfigurations :
              defaultConfigurations[j].key \in Keys}}
    \cup {b.category : b \in CreateBodies}

\* The category whose counts the write in flight in slot t changes.
Touched(t) ==
  IF slot[t].op = "create" THEN slot[t].body.category
  ELSE slot[t].doc.category

\* The slots in which a write is in flight.
Writers == {t \in Slots : slot[t].pc \notin {"idle", "total", "count"}}

\* The counts of router.get('/categories') are answered in any order.  Two
\* counts commute, and a count commutes with a write to another category, so
\* an answer depends only on where each write falls among the two counts of
\* its own category.  Every interleaving has the answer of one in which a
\* count is taken only when it is due: while a write is in flight, the
\* counts of its category; while none is, the counts of the first category
\* that is not finished.
Due(s, i) ==
  /\ i \in DOMAIN slot[s].stats
  /\ IF Writers # {}
     THEN \E t \in Writers : slot[s].stats[i].name = Touched(t)
     ELSE \A j \in 1..(i - 1) : slot[s].stats[j].publicCount # Pending

\* In these interleavings a request starts while a read of the categories
\* has counted nothing but categories a request can change.
Counted ==
  \A s \in Slots : \A i \in DOMAIN slot[s].stats :
    slot[s].stats[i].count # Pending => slot[s].stats[i].name \in Watched

\* The slot a new request is served in, while the budget allows one.
FreeSlots ==
  {s \in Slots : CanStart(s) /\ requests < Budget /\ Contested /\ Counted}

Reply(r) == resp' = r
Finish(s, r) == slot' = [slot EXCEPT ![s] = Idle] /\ resp' = r

\* What a handler decides before it writes: a refusal (status, message and
\* validation errors), or Proceed.
Refuse(status, message, errors) ==
  [status |-> status, message |-> message, errors |-> errors]
Proceed == Refuse(0, "", <<>>)

Refusal(s, op, caller, key, c) ==
  [Response(s, op, caller, key, c.status, c.message) EXCEPT !.errors = c.errors]

GuardedOps == {"list", "categories", "get", "create", "update", "delete",
               "bulk-update", "reset", "export"}

\* A guarded route called by a caller the middleware chain turns away: the
\* middleware answers and the handler never runs.
Rejected(s, op, caller) ==
  /\ CanStart(s)
  /\ Overlap
  /\ Track("", "", Undefined)
  /\ op \in GuardedOps
  /\ ~AdminGuard(caller).ok
  /\ requests' = requests + 1
  /\ Reply(Response(s, op, caller, "", AdminGuard(caller).status,
                    AdminGuard(caller).message))
  /\ UNCHANGED <<store, slot, seed, muts, probe, client>>

\* Mutant of CreateCheck: the handler does not look the key up.
CreateCheck_SkipsLookup(b, existing) ==
  IF CreateValidators(b) # <<>> THEN Refuse(400, "", CreateValidators(b))
  ELSE Proceed

\* router.post('/'): the request validators and the existence check.
CreateCheck(b, existing) ==
  IF CreateValidators(b) # <<>> THEN Refuse(400, "", CreateValidators(b))
  ELSE IF existing # NoDoc
       THEN Refuse(400, "Configuration key already exists", <<>>)
  ELSE Proceed

\* router.post('/'), up to save().
Create(s, caller, b) ==
  /\ CanStart(s)
  /\ Overlap
  /\ Track("create", "", Undefined)
  /\ AdminGuard(caller).ok
  /\ requests' = requests + 1
  /\ LET c == CreateCheck(b, FindOne(b.key))
     IN IF c # Proceed
        THEN Reply(Refusal(s, "create", caller, b.key, c)) /\ UNCHANGED slot
        ELSE /\ slot' = [slot EXCEPT ![s] =
                           [Idle EXCEPT !.pc = "create_save", !.op = "create",
                                        !.caller = caller, !.body = b]]
             /\ resp' = NoResp
  /\ UNCHANGED <<store, seed, muts, probe, client>>

\* res.json of a document: toJSON has { virtuals: true }, so the getter of
\* formattedValue runs and its SyntaxError is thrown in the handler.
Serialises(doc) == ~formattedValue(doc).throws

\* The ValidationError of save() on new Configuration(body).
CreateErrors(doc, b) ==
  ValidationErrors(doc, NoDoc, CastErrors("isPublic", b.isPublic)
                               \o CastErrors("isEditable", b.isEditable))

\* router.post('/'): new Configuration(...), save() and the response; the
\* catch answers 400 to a ValidationError and 500 to any other error, the
\* error of serialising the stored document included.
CreateSave(s) ==
  /\ slot[s].pc = "create_save"
  /\ LET r == slot[s]
         doc == NewConfiguration(Len(muts) + 1, r.body,
                                 AdminGuard(r.caller).user)
         errors == CreateErrors(doc, r.body)
         R(st, m) == Response(s, "create", r.caller, doc.key, st, m)
     IN IF errors # <<>>
        THEN /\ Finish(s, R(400, ValidationMessage(errors)))
             /\ UNCHANGED <<store, muts>>
        ELSE IF CanInsert(doc)
        THEN /\ store' = store \cup {doc}
             /\ muts' = Append(muts, 0)
             /\ Finish(s, IF Serialises(doc)
                          THEN R(201, "Configuration created successfully")
                          ELSE R(500, "Server error while creating configuration"))
        ELSE /\ Finish(s, R(500, "Server error while creating configuration"))
             /\ UNCHANGED <<store, muts>>
  /\ UNCHANGED <<seed, requests, overlap, scenario, probe, client>>

\* Mutant of PutCheck: the handler does not test isEditable.
PutCheck_IgnoresEditable(doc, b) ==
  IF PutValidators(b) # <<>> THEN Refuse(400, "", PutValidators(b))
  ELSE IF doc = NoDoc THEN Refuse(404, "Configuration not found", <<>>)
  ELSE IF b.value.k # "undefined" /\ ~validateValue(doc, b.value).isValid
       THEN Refuse(400, "Validation failed", validateValue(doc, b.value).errors)
  ELSE Proceed

\* Mutant of PutCheck: the handler does not validate the supplied value.
PutCheck_SkipsValidation(doc, b) ==
  IF PutValidators(b) # <<>> THEN Refuse(400, "", PutValidators(b))
  ELSE IF doc = NoDoc THEN Refuse(404, "Configuration not found", <<>>)
  ELSE IF ~ToBoolean(doc.isEditable)
       THEN Refuse(400, "This configuration is not editable", <<>>)
  ELSE Proceed

\* router.put('/:key'): the request validators, the lookup, the editable
\* check and the validation of a supplied value.
PutCheck(doc, b) ==
  IF PutValidators(b) # <<>> THEN Refuse(400, "", PutValidators(b))
  ELSE IF doc = NoDoc THEN Refuse(404, "Configuration not found", <<>>)
  ELSE IF ~ToBoolean(doc.isEditable)
       THEN Refuse(400, "This configuration is not editable", <<>>)
  ELSE IF b.value.k # "undefined" /\ ~validateValue(doc, b.value).isValid
       THEN Refuse(400, "Validation failed", validateValue(doc, b.value).errors)
  ELSE Proceed

\* Mutant of PutEdits: the handler also assigns the isEditable and category
\* the body carries.
PutEdits_MassAssigns(doc, b, user) ==
  [doc EXCEPT
     !.value = IF b.value.k # "undefined" THEN b.value ELSE @,
     !.description = IF b.description # Absent THEN trim(b.description)
                     ELSE @,
     !.isPublic = SetBoolean(b.isPublic, @),
     !.tags = IF b.tags.given THEN b.tags.v ELSE @,
     !.isEditable = SetBoolean(b.others.isEditable, @),
     !.category = IF b.others.category # Absent THEN b.others.category
                  ELSE @,
     !.lastModifiedBy = user,
     !.version = @ + 1]

\* The in-memory edits of router.put('/:key') on the loaded document; the
\* setters trim the description and cast isPublic.
PutEdits(doc, b, user) ==
  [doc EXCEPT
     !.value = IF b.value.k # "undefined" THEN b.value ELSE @,
     !.description = IF b.description # Absent THEN trim(b.description)
                     ELSE @,
     !.isPublic = SetBoolean(b.isPublic, @),
     !.tags = IF b.tags.given THEN b.tags.v ELSE @,
     !.lastModifiedBy = user,
     !.version = @ + 1]

\* A handler that found its document and goes on to save(); cast holds the
\* CastErrors its assignments recorded on the document.
Load(s, op, caller, doc, edited, cast) ==
  slot' = [slot EXCEPT ![s] =
             [Idle EXCEPT !.pc = "save", !.op = op, !.caller = caller,
                          !.orig = doc, !.doc = edited, !.cast = cast]]

\* router.put('/:key'), up to save().
Put(s, caller, key, b) ==
  /\ CanStart(s)
  /\ Overlap
  /\ Track("update", key, b.value)
  /\ AdminGuard(caller).ok
  /\ requests' = requests + 1
  /\ LET doc == FindOne(key)
         c == PutCheck(doc, b)
     IN IF c # Proceed
        THEN Reply(Refusal(s, "update", caller, key, c)) /\ UNCHANGED slot
        ELSE /\ Load(s, "update", caller, doc,
                     PutEdits(doc, b, AdminGuard(caller).user),
                     CastErrors("isPublic", b.isPublic))
             /\ resp' = NoResp
  /\ UNCHANGED <<store, seed, muts, probe, client>>

\* router.post('/reset/:key'): the lookup and the default value check.
ResetCheck(doc) ==
  IF doc = NoDoc THEN Refuse(404, "Configuration not found", <<>>)
  ELSE IF ~ToBoolean(doc.defaultValue)
       THEN Refuse(400, "No default value available for this configuration",
                   <<>>)
  ELSE Proceed

\* Mutant of ResetEdits: the reset does not increment the version.
ResetEdits_KeepsVersion(doc, user) ==
  [doc EXCEPT !.value = doc.defaultValue,
              !.lastModifiedBy = user]

\* The in-memory edits of router.post('/reset/:key').
ResetEdits(doc, user) ==
  [doc EXCEPT !.value = doc.defaultValue,
              !.lastModifiedBy = user,
              !.version = @ + 1]

\* router.post('/reset/:key'), up to save().
Reset(s, caller, key) ==
  /\ CanStart(s)
  /\ Overlap
  /\ Track("reset", key, Undefined)
  /\ AdminGuard(caller).ok
  /\ requests' = requests + 1
  /\ LET doc == FindOne(key)
         c == ResetCheck(doc)
     IN IF c # Proceed
        THEN Reply(Refusal(s, "reset", caller, key, c)) /\ UNCHANGED slot
        ELSE /\ Load(s, "reset", caller, doc,
                     ResetEdits(doc, AdminGuard(caller).user), <<>>)
             /\ resp' = NoResp
  /\ UNCHANGED <<store, seed, muts, probe, client>>

\* await configuration.save() of router.put('/:key') and
\* router.post('/reset/:key'), and the response.  The catch of the PUT
\* answers 400 to a ValidationError; any other error, the error of
\* serialising the saved document included, is answered 500.
Save(s) ==
  /\ slot[s].pc = "save"
  /\ LET r == slot[s]
         errors == ValidationErrors(r.doc, r.orig, r.cast)
         R(st, m) == Response(s, r.op, r.caller, r.doc.key, st, m)
         failed == R(500, IF r.op = "update"
                          THEN "Server error while updating configuration"
                          ELSE "Server error while resetting configuration")
     IN IF errors # <<>>
        THEN /\ Finish(s, IF r.op = "update"
                          THEN R(400, ValidationMessage(errors))
                          ELSE failed)
             /\ UNCHANGED <<store, muts>>
        ELSE IF CanUpdate(r.doc, r.orig)
        THEN /\ store' = Updated(r.doc, r.orig)
             /\ muts' = IF Serialises(r.doc) THEN Bump(r.doc._id) ELSE muts
             /\ Finish(s, IF ~Serialises(r.doc) THEN failed
                  ELSE R(200, IF r.op = "update"
                  THEN "Configuration updated successfully"
                  ELSE "Configuration reset to default value successfully"))
        ELSE /\ Finish(s, failed)
             /\ UNCHANGED <<store, muts>>
  /\ UNCHANGED <<seed, requests, overlap, scenario, probe, client>>

\* router.delete('/:key'): the lookup and the editable check.
DeleteCheck(doc) ==
  IF doc = NoDoc THEN Refuse(404, "Configuration not found", <<>>)
  ELSE IF ~ToBoolean(doc.isEditable)
       THEN Refuse(400, "This configuration cannot be deleted", <<>>)
  ELSE Proceed

\* router.delete('/:key'), up to findByIdAndDelete.
Delete(s, caller, key) ==
  /\ CanStart(s)
  /\ Overlap
  /\ Track("delete", "", Undefined)
  /\ AdminGuard(caller).ok
  /\ requests' = requests + 1
  /\ LET doc == FindOne(key)
         c == DeleteCheck(doc)
     IN IF c # Proceed
        THEN Reply(Refusal(s, "delete", caller, key, c)) /\ UNCHANGED slot
        ELSE /\ slot' = [slot EXCEPT ![s] =
                           [Idle EXCEPT !.pc = "delete", !.op = "delete",
                              !.caller = caller, !.orig = doc, !.doc = doc]]
             /\ resp' = NoResp
  /\ UNCHANGED <<store, seed, muts, probe, client>>

\* Configuration.findByIdAndDelete(configuration._id) and the response.
DeleteById(s) ==
  /\ slot[s].pc = "delete"
  /\ store' = {d \in store : d._id # slot[s].doc._id}
  /\ Finish(s, Response(s, "delete", slot[s].caller, slot[s].doc.key, 200,
                        "Configuration deleted successfully"))
  /\ UNCHANGED <<seed, requests, overlap, muts, scenario, probe, client>>

\* One iteration of the bulk-update loop before save(): the error pushed for
\* the item, or "" when the item is applied.
BulkItemCheck(doc, item) ==
  IF doc = NoDoc THEN "Configuration not found"
  ELSE IF ~ToBoolean(doc.isEditable) THEN "Configuration is not editable"
  ELSE IF ~validateValue(doc, item.value).isValid
       THEN "Validation failed: "
            \o JoinMessages(validateValue(doc, item.value).errors)
  ELSE ""

\* The in-memory edits of one bulk-update item.
BulkEdits(doc, item, user) ==
  [doc EXCEPT !.value = item.value,
              !.lastModifiedBy = user,
              !.version = @ + 1]

Failure(key, error) == [key |-> key, error |-> error]

BulkResponse(s, caller, results, failed) ==
  [Response(s, "bulk-update", caller, "", 200,
            "Bulk update completed. " \o ToString(Len(results))
            \o " successful, " \o ToString(Len(failed)) \o " failed.")
     EXCEPT !.results = results, !.failed = failed]

\* The end of one iteration of the bulk-update loop: the next item, or the
\* response after the last one.
BulkContinue(s, rest, results, failed) ==
  IF rest = <<>>
  THEN Finish(s, BulkResponse(s, slot[s].caller, results, failed))
  ELSE /\ slot' = [slot EXCEPT ![s] =
                     [Idle EXCEPT !.pc = "bulk_find", !.op = "bulk-update",
                        !.caller = slot[s].caller,
                        !.list = slot[s].list, !.items = rest,
                        !.results = results, !.failed = failed]]
       /\ resp' = NoResp

\* router.post('/bulk-update'), up to the loop.
Bulk(s, caller, items) ==
  /\ CanStart(s)
  /\ Overlap
  /\ Track("bulk-update", "", Undefined)
  /\ AdminGuard(caller).ok
  /\ requests' = requests + (IF items = <<>> THEN 1 ELSE Len(items))
  /\ IF BulkValidators(items) # <<>>
     THEN /\ Reply([Response(s, "bulk-update", caller, "", 400, "")
                      EXCEPT !.errors = BulkValidators(items)])
          /\ UNCHANGED slot
     ELSE IF items = <<>>
     THEN /\ Reply(BulkResponse(s, caller, <<>>, <<>>))
          /\ UNCHANGED slot
     ELSE /\ slot' = [slot EXCEPT ![s] =
                        [Idle EXCEPT !.pc = "bulk_find", !.op = "bulk-update",
                                     !.caller = caller,
                                     !.list = items, !.items = items]]
          /\ resp' = NoResp
  /\ UNCHANGED <<store, seed, muts, probe, client>>

\* One iteration of the loop up to save().
BulkFind(s) ==
  /\ slot[s].pc = "bulk_find"
  /\ LET r == slot[s]
         item == Head(r.items)
         doc == FindOne(item.key)
         error == BulkItemCheck(doc, item)
     IN IF error # ""
        THEN BulkContinue(s, Tail(r.items), r.results,
                          Append(r.failed, Failure(item.key, error)))
        ELSE /\ slot' = [slot EXCEPT ![s] =
                  [r EXCEPT !.pc = "bulk_save", !.orig = doc,
                     !.doc = BulkEdits(doc, item, AdminGuard(r.caller).user)]]
             /\ resp' = NoResp
  /\ UNCHANGED <<store, seed, requests, overlap, muts, scenario, probe, client>>

\* await configuration.save() of one iteration, with its catch.
BulkSave(s) ==
  /\ slot[s].pc = "bulk_save"
  /\ LET r == slot[s]
         item == Head(r.items)
     IN IF CanUpdate(r.doc, r.orig)
        THEN /\ store' = Updated(r.doc, r.orig)
             /\ muts' = Bump(r.doc._id)
             /\ BulkContinue(s, Tail(r.items),
                             Append(r.results, item.key), r.failed)
        ELSE /\ BulkContinue(s, Tail(r.items), r.results,
                  Append(r.failed, Failure(item.key, SaveError(r.doc, r.orig))))
             /\ UNCHANGED <<store, muts>>
  /\ UNCHANGED <<seed, requests, overlap, scenario, probe, client>>

(***************************************************************************)
(* Reads.                                                                  *)
(***************************************************************************)
\* A query filter { category?, isPublic? }; a falsy category ('' or none)
\* adds no condition.
Matches(d, category, onlyPublic) ==
  /\ (category # Absent /\ category # "") => d.category = category
  /\ onlyPublic => d.isPublic = Bool(TRUE)

Entry(key, value) == [key |-> key, value |-> value]

\* The keys of the model in the order sort({ key: 1 }) puts them.
KeyOrder ==
  <<"__proto__", "allowed_file_types", "analytics_tracking_enabled",
    "assignment_auto_grade", "assignment_late_penalty",
    "attendance_required_percentage", "course_approval_required",
    "custom_limit", "dashboard_widgets", "data_retention_days",
    "email_notifications_enabled", "instructor_registration_open",
    "instructor_verification_required", "maintenance_mode",
    "max_course_capacity", "max_file_size", "max_login_attempts",
    "password_min_length", "push_notifications_enabled", "session_timeout",
    "site_description", "site_name", "student_registration_open",
    "theme_primary_color", "theme_secondary_color">>
Rank(key) == CHOOSE i \in 1..Len(KeyOrder) : KeyOrder[i] = key

\* The categories in the order sort({ category: 1 }) puts them.
CategoryOrder ==
  <<"analytics", "assignment", "attendance", "course", "email",
    "file_upload", "notification", "security", "system", "ui", "user">>
CategoryRank(category) ==
  CHOOSE i \in 1..Len(CategoryOrder) : CategoryOrder[i] = category

\* const { page = 1, limit = 20 } = req.query
PageLimit == 20

\* find(filter).sort({ category: 1, key: 1 }).skip(0).limit(20): the
\* documents with fewer than 20 matching documents before them.
FirstPage(category) ==
  LET found == {d \in store : Matches(d, category, FALSE)}
      Before(e, d) ==
        \/ CategoryRank(e.category) < CategoryRank(d.category)
        \/ /\ e.category = d.category
           /\ Rank(e.key) < Rank(d.key)
  IN IF Cardinality(found) <= PageLimit THEN found
     ELSE {d \in found :
             Cardinality({e \in found : Before(e, d)}) < PageLimit}

\* configObject[config.key] = config.formattedValue for each document, on a
\* plain object: the assignment to the key __proto__ creates no property.
ConfigObject(configurations) ==
  {Entry(d.key, formattedValue(d).value) :
     d \in {c \in configurations : c.key # "__proto__"}}

\* router.get('/public'): no middleware.
GetPublic(s, category) ==
  /\ CanStart(s)
  /\ Overlap
  /\ Track("public", "", Undefined)
  /\ requests' = requests + 1
  /\ LET configurations == {d \in store : Matches(d, category, TRUE)}
         R(st, m) == Response(s, "public", NoToken, category, st, m)
     IN IF \E d \in configurations : formattedValue(d).throws
        THEN Reply(R(500, "Server error while fetching public configurations"))
        ELSE Reply([R(200, "") EXCEPT !.data = ConfigObject(configurations)])
  /\ UNCHANGED <<store, slot, seed, muts, probe, client>>

\* The route a GET path is dispatched to: the first registered route that
\* matches, in the order '/', '/categories', '/public', '/:key', '/export'.
Route(path) ==
  CASE path = "/" -> "list"
    [] path = "/categories" -> "categories"
    [] path = "/public" -> "public"
    [] OTHER -> "get"

\* The :key parameter of a path "/<key>".
KeyParam(path) ==
  IF path = "/export" THEN "export"
  ELSE IF \E k \in Keys : path = "/" \o k
       THEN CHOOSE k \in Keys : path = "/" \o k
  ELSE ""

\* The categories distinct('category') returns, in the order of
\* CategoryOrder.
RECURSIVE Distinct(_)
Distinct(order) ==
  IF order = <<>> THEN <<>>
  ELSE (IF \E d \in store : d.category = Head(order)
        THEN <<Head(order)>> ELSE <<>>) \o Distinct(Tail(order))

\* router.get('/') without page, limit, isPublic or search,
\* router.get('/categories') and router.get('/:key') for an admin caller, up
\* to the end of the first query: find() of the list, distinct() of the
\* categories, findOne() of an entry, which is answered at once.
Get(s, caller, path, category) ==
  /\ CanStart(s)
  /\ Overlap
  /\ Track("get", "", Undefined)
  /\ Route(path) # "public"
  /\ AdminGuard(caller).ok
  /\ requests' = requests + 1
  /\ LET R(op, key, st, m) == Response(s, op, caller, key, st, m)
         Await(op, pc) == [Idle EXCEPT !.pc = pc, !.op = op,
                                       !.caller = caller]
     IN CASE Route(path) = "list" ->
               /\ slot' = [slot EXCEPT ![s] =
                    [Await("list", "total") EXCEPT
                       !.query = category, !.page = FirstPage(category)]]
               /\ resp' = NoResp
          [] Route(path) = "categories" ->
               IF Distinct(CategoryOrder) = <<>>
               THEN Reply(R("categories", "", 200, "")) /\ UNCHANGED slot
               ELSE /\ slot' = [slot EXCEPT ![s] =
                         [Await("categories", "count") EXCEPT
                            !.stats = [i \in DOMAIN Distinct(CategoryOrder) |->
                                         [name |-> Distinct(CategoryOrder)[i],
                                          count |-> Pending,
                                          publicCount |-> Pending]]]]
                    /\ resp' = NoResp
          [] Route(path) = "get" ->
               /\ UNCHANGED slot
               /\ IF FindOne(KeyParam(path)) = NoDoc
                  THEN Reply(R("get", KeyParam(path), 404,
                               "Configuration not found"))
                  ELSE IF ~Serialises(FindOne(KeyParam(path)))
                  THEN Reply(R("get", KeyParam(path), 500,
                               "Server error while fetching configuration"))
                  ELSE Reply([R("get", KeyParam(path), 200, "") EXCEPT
                                !.data = {FindOne(KeyParam(path))}])
  /\ UNCHANGED <<store, seed, muts, probe, client>>

\* router.get('/'): countDocuments(filter) and the response, the page that
\* find() returned with the pagination object.
GetTotal(s) ==
  /\ slot[s].pc = "total"
  /\ LET r == slot[s]
         total == Cardinality({d \in store : Matches(d, r.query, FALSE)})
         R(st, m) == Response(s, "list", r.caller, r.query, st, m)
     IN IF \E d \in r.page : ~Serialises(d)
        THEN Finish(s, R(500, "Server error while fetching configurations"))
        ELSE Finish(s, [R(200, "") EXCEPT
               !.data = {Entry(d.key, d.value) : d \in r.page},
               !.pagination = [current |-> 1,
                               pages |-> (total + PageLimit - 1) \div PageLimit,
                               total |-> total,
                               limit |-> PageLimit]])
  /\ UNCHANGED <<store, seed, requests, overlap, muts, scenario, probe, client>>

\* router.get('/categories'): the answer to
\* countDocuments({ category }) of the i-th category.  Promise.all starts
\* the function of every category at once, so the counts are answered in any
\* order.
GetCount(s, i) ==
  /\ slot[s].pc = "count"
  /\ i \in DOMAIN slot[s].stats
  /\ slot[s].stats[i].count = Pending
  /\ slot' = [slot EXCEPT ![s].stats[i].count =
                Cardinality({d \in store : d.category = slot[s].stats[i].name})]
  /\ resp' = NoResp
  /\ UNCHANGED <<store, seed, requests, overlap, muts, scenario, probe, client>>

\* router.get('/categories'): the answer to
\* countDocuments({ category, isPublic: true }) of the i-th category, sent
\* once its count is answered; Promise.all resolves and res.json answers
\* when the last function has returned.
GetPublicCount(s, i) ==
  /\ slot[s].pc = "count"
  /\ i \in DOMAIN slot[s].stats
  /\ slot[s].stats[i].count # Pending
  /\ slot[s].stats[i].publicCount = Pending
  /\ LET r == slot[s]
         stats == [r.stats EXCEPT ![i].publicCount =
                     Cardinality({d \in store :
                        /\ d.category = r.stats[i].name
                        /\ d.isPublic = Bool(TRUE)})]
     IN IF \A j \in DOMAIN stats : stats[j].publicCount # Pending
        THEN Finish(s, [Response(s, "categories", r.caller, "", 200, "")
                          EXCEPT !.data = {stats[j] : j \in DOMAIN stats}])
        ELSE /\ slot' = [slot EXCEPT ![s].stats = stats]
             /\ resp' = NoResp
  /\ UNCHANGED <<store, seed, requests, overlap, muts, scenario, probe, client>>

(***************************************************************************)
(* The seed script.                                                        *)
(***************************************************************************)
\* User.findOne({ role: 'admin' })
adminUser == "admin1"

\* A run of the script.
SeedStart ==
  /\ seed.pc \in {"off", "done"}
  /\ requests < Budget
  /\ Overlap
  /\ Track("seed", "", Undefined)
  /\ requests' = requests + 1
  /\ seed' = [pc |-> "find", i |-> 1]
  /\ resp' = NoResp
  /\ UNCHANGED <<store, slot, muts, probe, client>>

SeedAdvance == IF seed.i = Len(defaultConfigurations)
               THEN [pc |-> "done", i |-> 0]
               ELSE [pc |-> "find", i |-> seed.i + 1]

\* One iteration up to save(): an existing key is skipped.
SeedFind ==
  /\ seed.pc = "find"
  /\ Idling \/ (requests <= MaxRequests /\ Contested)
  /\ overlap' = (overlap \/ ~Idling)
  /\ UNCHANGED scenario
  /\ seed' = IF Exists(defaultConfigurations[seed.i].key)
             THEN SeedAdvance
             ELSE [seed EXCEPT !.pc = "save"]
  /\ resp' = NoResp
  /\ UNCHANGED <<store, slot, requests, muts, probe, client>>

\* new Configuration({...configData, lastModifiedBy}) and save(); an error
\* ends the script.
SeedSave ==
  /\ seed.pc = "save"
  /\ LET doc == NewConfiguration(Len(muts) + 1,
                                 defaultConfigurations[seed.i], adminUser)
     IN IF CanInsert(doc)
        THEN /\ store' = store \cup {doc}
             /\ muts' = Append(muts, 0)
             /\ seed' = SeedAdvance
        ELSE /\ seed' = [pc |-> "done", i |-> 0]
             /\ UNCHANGED <<store, muts>>
  /\ resp' = NoResp
  /\ UNCHANGED <<slot, requests, overlap, scenario, probe, client>>

(***************************************************************************)
(* Specifications.                                                         *)
(***************************************************************************)
\* A request of each kind, from any caller and with any input of the model.
CreateRequest ==
  \E s \in FreeSlots, c \in Callers, b \in CreateBodies : Create(s, c, b)
PutRequest ==
  \E s \in FreeSlots, c \in Callers, k \in Keys, b \in PutBodies :
    Put(s, c, k, b)
ResetRequest ==
  \E s \in FreeSlots, c \in Callers, k \in Keys : Reset(s, c, k)
DeleteRequest ==
  \E s \in FreeSlots, c \in Callers, k \in Keys : Delete(s, c, k)
BulkRequest ==
  \E s \in FreeSlots, c \in Callers, l \in BulkLists :
    requests + Len(l) <= Budget /\ Bulk(s, c, l)
RejectedRequest ==
  \E s \in FreeSlots, op \in GuardedOps, c \in Callers : Rejected(s, op, c)
GetPublicRequest ==
  \E s \in FreeSlots, q \in CategoryQueries : GetPublic(s, q)
GetRequest ==
  \E s \in FreeSlots, c \in Callers, p \in GetPaths, q \in CategoryQueries :
    (Route(p) = "list" \/ q = Absent) /\ Get(s, c, p, q)

\* A handler or the seed script resuming after an await.
Step ==
  \/ \E s \in Slots : CreateSave(s)
  \/ \E s \in Slots : Save(s)
  \/ \E s \in Slots : DeleteById(s)
  \/ \E s \in Slots : BulkFind(s)
  \/ \E s \in Slots : BulkSave(s)
  \/ SeedSave

\* The requests that write and the seed script, interleaved at their awaits.
Next ==
  \/ CreateRequest
  \/ PutRequest
  \/ ResetRequest
  \/ DeleteRequest
  \/ BulkRequest
  \/ SeedStart
  \/ SeedFind
  \/ Step

Spec == Init /\ [][Next]_vars

\* The same served one at a time: a request starts, and the seed script
\* looks up its next key, only when nothing else is in flight.
NextSeq ==
  \/ Quiet /\ CreateRequest
  \/ Quiet /\ PutRequest
  \/ Quiet /\ ResetRequest
  \/ Quiet /\ DeleteRequest
  \/ Quiet /\ BulkRequest
  \/ Quiet /\ SeedStart
  \/ Idling /\ SeedFind
  \/ Step

SpecSeq == Init /\ [][NextSeq]_vars

\* The whole API, with the reads and the requests the middleware turns away,
\* served one request at a time, but for the creations, updates and
\* deletions that start between two queries of a read.
NextApi ==
  \/ Reading /\ CreateRequest
  \/ Reading /\ PutRequest
  \/ Quiet /\ ResetRequest
  \/ Reading /\ DeleteRequest
  \/ Quiet /\ BulkRequest
  \/ Quiet /\ RejectedRequest
  \/ Quiet /\ GetPublicRequest
  \/ Quiet /\ GetRequest
  \/ Quiet /\ SeedStart
  \/ Idling /\ SeedFind
  \/ \E s \in Slots : GetTotal(s)
  \/ \E s \in Slots, i \in 1..Len(CategoryOrder) : Due(s, i) /\ GetCount(s, i)
  \/ \E s \in Slots, i \in 1..Len(CategoryOrder) :
       Due(s, i) /\ GetPublicCount(s, i)
  \/ Step

SpecApi == Init /\ [][NextApi]_vars

(***************************************************************************)
(* validateValue on its own: a document of any type and rule set, and any  *)
(* candidate value.                                                        *)
(***************************************************************************)
MaxLen == 3        \* longest candidate string, in characters
MaxArr == 2        \* longest candidate array

\* The characters of candidate strings.
Alphabet == {"e", "1", "#", Astral}
ProbeStrings == UNION {[1..n -> Alphabet] : n \in 0..MaxLen}

Pdf == <<"p", "d", "f">>
Doc == <<"d", "o", "c">>
Exe == <<"e", "x", "e">>
ProbeArrays == UNION {[1..n -> {Pdf, Doc, Exe}] : n \in 0..MaxArr}

ProbeValues ==
  {Undefined, Null, Bool(TRUE), Bool(FALSE)}
  \cup {Num(i) : i \in -2..4}
  \cup {Str(cs) : cs \in ProbeStrings}
  \cup {Arr(els) : els \in ProbeArrays}

\* The patterns of candidate rule sets: '^#[0-9A-Fa-f]$' (the seed's colour
\* pattern with one digit), '#[0-9A-Fa-f]', '^#' and '[0-9A-Fa-f]$'.
ProbePatterns ==
  {NoPattern,
   Pattern(TRUE, TRUE, <<{"#"}, HexDigit>>),
   Pattern(FALSE, FALSE, <<{"#"}, HexDigit>>),
   Pattern(TRUE, FALSE, <<{"#"}>>),
   Pattern(FALSE, TRUE, <<HexDigit>>)}

ProbeBounds ==
  {NoRules, Rules(TRUE, 0, TRUE, 2), Rules(TRUE, 1, TRUE, 2),
   Rules(TRUE, 2, TRUE, 2), Rules(TRUE, -1, TRUE, 1), Rules(TRUE, 1, FALSE, 0),
   Rules(FALSE, 0, TRUE, 2)}

\* The rule sets a body can carry for each type.
ProbeRules(type) ==
  LET required == {[hasRequired |-> FALSE, required |-> FALSE],
                   [hasRequired |-> TRUE, required |-> FALSE],
                   [hasRequired |-> TRUE, required |-> TRUE]}
      patterns == IF type = "string" THEN ProbePatterns ELSE {NoPattern}
      bounds == IF type \in {"string", "number"} THEN ProbeBounds
                ELSE {NoRules}
      options == IF type = "array"
                 THEN {[hasOptions |-> FALSE, options |-> <<>>],
                       [hasOptions |-> TRUE, options |-> <<Pdf, Doc>>],
                       [hasOptions |-> TRUE, options |-> <<>>]}
                 ELSE {[hasOptions |-> FALSE, options |-> <<>>]}
  IN {[b EXCEPT !.pattern = p, !.hasOptions = o.hasOptions,
                !.options = o.options, !.hasRequired = r.hasRequired,
                !.required = r.required] :
        b \in bounds, p \in patterns, o \in options, r \in required}

ProbeBody(type, rules) ==
  Body("probe", Undefined, type, "system", "probe", Undefined, Undefined, rules, Undefined, NoTags)

ProbeDocs ==
  UNION {{NewConfiguration(1, ProbeBody(type, rules), "admin1") :
            rules \in ProbeRules(type)} :
         type \in {"number", "string", "array", "boolean"}}

\* Nothing runs but the calls of validateValue.
InitValidate ==
  /\ store = {} /\ muts = <<>> /\ seed = [pc |-> "off", i |-> 0]
  /\ scenario = 4
  /\ slot = [s \in Slots |-> Idle]
  /\ resp = NoResp
  /\ requests = 0
  /\ overlap = FALSE
  /\ client = ConfigurationProvider
  /\ \E d \in ProbeDocs : probe = [NoProbe EXCEPT !.doc = d]

\* doc.validateValue(value).  The method reads the document and changes
\* nothing, so that one call on each document shows every outcome.
Validate(value) ==
  /\ probe.calls = 0
  /\ probe' = [probe EXCEPT !.value = value,
                            !.result = validateValue(probe.doc, value),
                            !.calls = 1]
  /\ UNCHANGED <<store, slot, seed, resp, requests, overlap, muts, scenario, client>>

NextValidate == \E value \in ProbeValues : Validate(value)

SpecValidate == InitValidate /\ [][NextValidate]_vars

(***************************************************************************)
(* The client cache: the ConfigurationProvider of one browser.  A call of  *)
(* fetchConfigurations runs up to its await, the server answers the GET    *)
(* or the request is lost, and the rest of the call runs when the promise  *)
(* settles.  Calls that overlap settle in any order.                       *)
(***************************************************************************)
MaxFetches == 3    \* calls of fetchConfigurations
MaxEdits == 2      \* requests an admin sends while the client runs

\* A caller authorize('admin') lets through.
Admin == TokenFor("admin2")

\* The file types and dashboard widgets of the seed list and of the client.
\* The hard-coded snapshot of the catch block of fetchConfigurations.
Fallback ==
  {Entry("site_name", Str(<<"E", "d", "u", "M", "a", "n", "a", "g",
         "e">>)),
   Entry("site_description", Str(<<"C", "o", "m", "p", "r", "e", "h",
         "e", "n", "s", "i", "v", "e", " ", "C", "o", "u", "r", "s", "e",
         " ", "M", "a", "n", "a", "g", "e", "m", "e", "n", "t", " ", "S", "y",
         "s", "t", "e", "m">>)),
   Entry("maintenance_mode", Bool(FALSE)),
   Entry("max_file_size", Num(10485760)),
   Entry("allowed_file_types", FileTypes),
   Entry("max_course_capacity", Num(50)),
   Entry("course_approval_required", Bool(TRUE)),
   Entry("instructor_verification_required", Bool(TRUE)),
   Entry("student_registration_open", Bool(TRUE)),
   Entry("instructor_registration_open", Bool(TRUE)),
   Entry("assignment_late_penalty", Num(10)),
   Entry("assignment_auto_grade", Bool(FALSE)),
   Entry("attendance_required_percentage", Num(75)),
   Entry("email_notifications_enabled", Bool(TRUE)),
   Entry("push_notifications_enabled", Bool(TRUE)),
   Entry("password_min_length", Num(8)),
   Entry("theme_primary_color", Str(<<"#", "3", "B", "8", "2", "F",
         "6">>)),
   Entry("theme_secondary_color", Str(<<"#", "1", "0", "B", "9", "8",
         "1">>)),
   Entry("dashboard_widgets", Widgets)}

\* Every key of the seed script's defaultConfigurations with its
\* defaultValue.
SeedDefaults ==
  {Entry(defaultConfigurations[i].key, defaultConfigurations[i].defaultValue) :
     i \in DOMAIN defaultConfigurations}

\* What router.get('/public') answers on the current collection.
PublicAnswer ==
  LET configurations == {d \in store : Matches(d, Absent, TRUE)} IN
  IF \E d \in configurations : formattedValue(d).throws
  THEN [status |-> 500, data |-> {}]
  ELSE [status |-> 200, data |-> ConfigObject(configurations)]

Fetches == DOMAIN client.fetches
InFlight(i) == client.fetches[i].pc # "done"

\* fetchConfigurations up to its await: setLoading(true), setError(null),
\* axios.get('/api/configurations/public').
FetchStart ==
  client' = [client EXCEPT
               !.mounted = TRUE, !.loading = TRUE, !.error = "",
               !.fetches = Append(@, [pc |-> "sent", status |-> 0,
                                      data |-> {}])]

\* useEffect(() => { fetchConfigurations(); }, [])
Mount ==
  /\ ~client.mounted
  /\ FetchStart
  /\ UNCHANGED <<store, slot, seed, resp, requests, overlap, muts, scenario, probe>>

\* refreshConfigurations()
Refresh ==
  /\ client.mounted
  /\ Len(client.fetches) < MaxFetches
  /\ FetchStart
  /\ UNCHANGED <<store, slot, seed, resp, requests, overlap, muts, scenario, probe>>

\* The server answers the GET of fetch i.
Serve(i) ==
  /\ client.fetches[i].pc = "sent"
  /\ client' = [client EXCEPT !.fetches[i] =
                  [pc |-> "answered", status |-> PublicAnswer.status,
                   data |-> PublicAnswer.data]]
  /\ UNCHANGED <<store, slot, seed, resp, requests, overlap, muts, scenario, probe>>

\* The GET of fetch i gets no response (status 0).
Drop(i) ==
  /\ client.fetches[i].pc = "sent"
  /\ client' = [client EXCEPT !.fetches[i] =
                  [pc |-> "answered", status |-> 0, data |-> {}]]
  /\ UNCHANGED <<store, slot, seed, resp, requests, overlap, muts, scenario, probe>>

\* err.message of the error axios throws.
ErrorMessage(status) ==
  IF status = 0 THEN "Network Error"
  ELSE "Request failed with status code " \o ToString(status)

\* fetchConfigurations of fetch i after its await: the try, catch and finally
\* blocks.
Settle(i) ==
  /\ client.fetches[i].pc = "answered"
  /\ LET f == client.fetches[i] IN
     client' = [client EXCEPT
                  !.configurations = IF f.status = 200 THEN f.data
                                     ELSE Fallback,
                  !.error = IF f.status = 200 THEN @
                            ELSE ErrorMessage(f.status),
                  !.loading = FALSE,
                  !.fetches[i] = [f EXCEPT !.pc = "done"]]
  /\ UNCHANGED <<store, slot, seed, resp, requests, overlap, muts, scenario, probe>>

\* The properties a plain object inherits from Object.prototype, besides
\* __proto__.
Inherited ==
  {"constructor", "hasOwnProperty", "isPrototypeOf", "propertyIsEnumerable",
   "toLocaleString", "toString", "valueOf", "__defineGetter__",
   "__defineSetter__", "__lookupGetter__", "__lookupSetter__"}

\* configurations[key]: the entry of the snapshot, which is never undefined
\* (the snapshot is parsed JSON or the hard-coded one), or else what the
\* plain object inherits.
Lookup(key) ==
  IF \E e \in client.configurations : e.key = key
  THEN (CHOOSE e \in client.configurations : e.key = key).value
  ELSE IF key = "__proto__" THEN ObjectPrototype
  ELSE IF key = "constructor" THEN Function("Object")
  ELSE IF key \in Inherited THEN Function(key)
  ELSE Undefined

\* getConfig(key, defaultValue = null)
getConfig(key, defaultValue) ==
  IF Lookup(key) # Undefined THEN Lookup(key)
  ELSE IF defaultValue = Undefined THEN Null
  ELSE defaultValue

\* getConfigs(keys): result[key] = getConfig(key) for each key, on a plain
\* object, where the assignment to the key __proto__ creates no property.
getConfigs(keys) ==
  {Entry(key, getConfig(key, Undefined)) : key \in keys \ {"__proto__"}}

\* Math.round(x / 1024 / 1024) for x below 10^9 in magnitude, NaN and the
\* infinities kept as values.
RoundMB(v) ==
  IF ToNumber(v).nan THEN [Num(0) EXCEPT !.k = "NaN"]
  ELSE IF ToNumber(v).inf # 0
       THEN [Num(ToNumber(v).inf) EXCEPT !.k = "Infinity"]
  ELSE Num((2 * ToNumber(v).n + 1048576) \div 2097152)

isMaintenanceMode == getConfig("maintenance_mode", Bool(FALSE))

isRegistrationOpen(role) ==
  IF role = "student" THEN getConfig("student_registration_open", Bool(TRUE))
  ELSE IF role = "instructor"
       THEN getConfig("instructor_registration_open", Bool(TRUE))
  ELSE Bool(FALSE)

getFileUploadConfig ==
  [maxSize |-> getConfig("max_file_size", Num(10485760)),
   allowedTypes |-> getConfig("allowed_file_types", FileTypes),
   maxSizeMB |-> RoundMB(getConfig("max_file_size", Num(10485760)))]

getThemeConfig ==
  [primaryColor |-> getConfig("theme_primary_color",
                              Str(<<"#", "3", "B", "8", "2", "F", "6">>)),
   secondaryColor |-> getConfig("theme_secondary_color",
                                Str(<<"#", "1", "0", "B", "9", "8", "1">>)),
   dashboardWidgets |-> getConfig("dashboard_widgets", Widgets)]

getCourseConfig ==
  [maxCapacity |-> getConfig("max_course_capacity", Num(50)),
   approvalRequired |-> getConfig("course_approval_required", Bool(TRUE))]

getAssignmentConfig ==
  [latePenalty |-> getConfig("assignment_late_penalty", Num(10)),
   autoGrade |-> getConfig("assignment_auto_grade", Bool(FALSE))]

getAttendanceConfig ==
  [requiredPercentage |-> getConfig("attendance_required_percentage", Num(75))]

getNotificationConfig ==
  [emailEnabled |-> getConfig("email_notifications_enabled", Bool(TRUE)),
   pushEnabled |-> getConfig("push_notifications_enabled", Bool(TRUE))]

getSecurityConfig ==
  [passwordMinLength |-> getConfig("password_min_length", Num(8))]

\* What the admin does to the collection while the client runs: a public
\* entry under a new key, one under the key __proto__ (the key validator
\* asks for a non-empty key only), maintenance_mode entered as the JSON
\* text null on a collection that was never seeded, and an edit of the late
\* penalty.
CreatePublic ==
  Body("custom_limit", Num(20), "number", "course", "Limit",
       Bool(TRUE), Undefined, Rules(TRUE, 0, TRUE, 100), Undefined, NoTags)
CreateNullJson ==
  Body("maintenance_mode", Str(<<"n", "u", "l", "l">>), "json", "system",
       "Maintenance", Bool(TRUE), Undefined, NoRules, Undefined, NoTags)
CreateProto ==
  Body("__proto__", Num(5), "number", "system", "Proto",
       Bool(TRUE), Undefined, NoRules, Undefined, NoTags)
EditSlots == {s \in Slots : CanStart(s) /\ Quiet /\ requests < MaxEdits}

AdminCreate ==
  \E s \in EditSlots, b \in {CreatePublic, CreateProto, CreateNullJson} :
    Create(s, Admin, b)
AdminPut ==
  \E s \in EditSlots :
    Put(s, Admin, "assignment_late_penalty",
        PutBody(Num(15), Absent, Undefined, NoTags))

NextClient ==
  \/ Mount
  \/ Refresh
  \/ \E i \in Fetches : Serve(i)
  \/ \E i \in Fetches : Drop(i)
  \/ \E i \in Fetches : Settle(i)
  \/ AdminCreate
  \/ AdminPut
  \/ \E s \in Slots : CreateSave(s)
  \/ \E s \in Slots : Save(s)

SpecClient == Init /\ [][NextClient]_vars

(***************************************************************************)
(* Writers racing on one key: updates, bulk-updates and resets of          *)
(* assignment_late_penalty and updates of allowed_file_types sent by one   *)
(* admin on the seeded collection, interleaved at their awaits.            *)
(***************************************************************************)
MaxRace == 3       \* requests of a race, a bulk-update counting once per item

RaceKey == "assignment_late_penalty"
RaceValues == {Num(15), Num(20)}
RaceBodies ==
  {PutBody(v, Absent, Undefined, NoTags) :
     v \in RaceValues \cup {Arr(<<<<"1", "5">>>>)}}
  \cup {PutBody(v, Absent, Undefined, Tags(<<"audit">>)) : v \in RaceValues}
RaceLists ==
  UNION {[1..n -> {Item(RaceKey, v) : v \in RaceValues}] : n \in 1..MaxBulk}

\* Updates of the seeded allowed_file_types, whose values are arrays.
RaceArrayKey == "allowed_file_types"
RaceArrays == {Arr(<<Pdf>>), Arr(<<Doc>>)}

RaceSlots == {s \in Slots : CanStart(s) /\ requests < MaxRace}

RacePut == \E s \in RaceSlots, b \in RaceBodies : Put(s, Admin, RaceKey, b)
RaceArrayPut ==
  \E s \in RaceSlots, v \in RaceArrays :
    Put(s, Admin, RaceArrayKey, PutBody(v, Absent, Undefined, NoTags))
RaceReset == \E s \in RaceSlots : Reset(s, Admin, RaceKey)
RaceBulk ==
  \E s \in RaceSlots, l \in RaceLists :
    requests + Len(l) <= MaxRace /\ Bulk(s, Admin, l)

InitRace == Init /\ store = Seeded

NextRace ==
  \/ RacePut
  \/ RaceArrayPut
  \/ RaceReset
  \/ RaceBulk
  \/ \E s \in Slots : Save(s)
  \/ \E s \in Slots : BulkFind(s)
  \/ \E s \in Slots : BulkSave(s)

SpecRace == InitRace /\ [][NextRace]_vars

(***************************************************************************)
(* The statics of the model, called by scripts: Configuration.setValue and *)
(* Configuration.getByCategory.  A call of setValue runs up to save(), and *)
(* save() runs when its turn comes; calls may overlap.  The collection is  *)
(* the seeded one, to which an admin may add a private entry.              *)
(***************************************************************************)
MaxStatics == 3    \* calls of the statics and creations

\* An entry of the assignment category the public projection leaves out; its
\* validation does not require a value.
CreatePrivate ==
  Body("custom_limit", Bool(TRUE), "boolean", "assignment", "Private flag",
       Undefined, Undefined,
       [NoRules EXCEPT !.hasRequired = TRUE, !.required = FALSE],
       Undefined, NoTags)

\* The options argument of setValue: { description?, tags? }.
Options(description, tags) == [description |-> description, tags |-> tags]
NoOptions == Options(Absent, NoTags)
SetValueOptions ==
  {NoOptions, Options("", Tags(<<>>)), Options("Changed", Tags(<<"audit">>))}
SetValueValues == {Num(15), Num(150), Null}
UserIds == {"admin2"}

\* The call of a static: no HTTP caller, the arguments kept for its outcome.
Call(value, userId, options) ==
  [value |-> value, userId |-> userId, options |-> options]

\* What setValue throws before it edits anything, "" when it goes on.
SetValueCheck(doc, key, value) ==
  IF doc = NoDoc THEN "Configuration key '" \o key \o "' not found"
  ELSE IF ~validateValue(doc, value).isValid
       THEN "Validation failed: "
            \o JoinMessages(validateValue(doc, value).errors)
  ELSE ""

\* The in-memory edits of setValue: options.description and options.tags are
\* applied when they are truthy (an empty string is not, an empty array is).
SetValueEdits(doc, value, userId, options) ==
  [doc EXCEPT
     !.value = value,
     !.lastModifiedBy = userId,
     !.version = @ + 1,
     !.description = IF options.description \notin {Absent, ""}
                     THEN trim(options.description) ELSE @,
     !.tags = IF options.tags.given THEN options.tags.v ELSE @]

\* What a call of a static returned or threw.
Returned(s, op, key) == Response(s, op, NoToken, key, 0, "")
Thrown(s, op, key, message) == Response(s, op, NoToken, key, 0, message)

StaticsSlots == {s \in Slots : CanStart(s) /\ requests < MaxStatics}

\* Configuration.setValue(key, value, userId, options), up to save().
SetValue(s, key, value, userId, options) ==
  /\ CanStart(s)
  /\ Overlap
  /\ Track("setValue", key, value)
  /\ requests' = requests + 1
  /\ LET doc == FindOne(key)
         thrown == SetValueCheck(doc, key, value)
     IN IF thrown # ""
        THEN Reply(Thrown(s, "setValue", key, thrown)) /\ UNCHANGED slot
        ELSE /\ slot' = [slot EXCEPT ![s] =
                  [Idle EXCEPT !.pc = "set_save", !.op = "setValue",
                     !.orig = doc,
                     !.doc = SetValueEdits(doc, value, userId, options),
                     !.body = Call(value, userId, options)]]
             /\ resp' = NoResp
  /\ UNCHANGED <<store, seed, muts, probe, client>>

\* return await config.save() of setValue: the saved document, or the error
\* of save().
SetValueSave(s) ==
  /\ slot[s].pc = "set_save"
  /\ LET r == slot[s] IN
     IF CanUpdate(r.doc, r.orig)
     THEN /\ store' = Updated(r.doc, r.orig)
          /\ muts' = Bump(r.doc._id)
          /\ Finish(s, [Returned(s, "setValue", r.doc.key)
                          EXCEPT !.data = {Saved(r.doc, r.orig)}])
     ELSE /\ Finish(s, Thrown(s, "setValue", r.doc.key,
                              SaveError(r.doc, r.orig)))
          /\ UNCHANGED <<store, muts>>
  /\ UNCHANGED <<seed, requests, overlap, scenario, probe, client>>

\* Mutant of CategoryFilter: the filter never restricts to public entries.
CategoryFilter_AlwaysPrivate(category, includePrivate) ==
  [category |-> category, onlyPublic |-> FALSE]

\* The filter getByCategory builds: { category }, and isPublic: true unless
\* includePrivate is truthy; the parameter defaults to false.
CategoryFilter(category, includePrivate) ==
  [category |-> category,
   onlyPublic |-> IF includePrivate.k = "undefined" THEN TRUE
                  ELSE ~ToBoolean(includePrivate)]

\* find(filter): a category of the filter is matched as it is.
Find(filter) ==
  {d \in store : d.category = filter.category
                 /\ (filter.onlyPublic => d.isPublic = Bool(TRUE))}

\* sort({ key: 1 }) of a set of documents with distinct keys.
RECURSIVE SortByKey(_)
SortByKey(docs) ==
  IF docs = {} THEN <<>>
  ELSE LET first == CHOOSE d \in docs :
                      \A e \in docs : Rank(d.key) <= Rank(e.key)
       IN <<first>> \o SortByKey(docs \ {first})

\* Configuration.getByCategory(category, includePrivate)
GetByCategory(s, category, includePrivate) ==
  /\ CanStart(s)
  /\ Overlap
  /\ Track("getByCategory", "", Undefined)
  /\ requests' = requests + 1
  /\ Reply([Returned(s, "getByCategory", category) EXCEPT
              !.results = SortByKey(Find(CategoryFilter(category,
                                                        includePrivate)))])
  /\ UNCHANGED <<store, slot, seed, muts, probe, client>>

IncludePrivate == {Undefined, Bool(FALSE), Bool(TRUE)}
StaticsCategories == {"system", "assignment", "course"}

SetValueCall ==
  \E s \in StaticsSlots, k \in Keys, v \in SetValueValues, u \in UserIds, o \in SetValueOptions :
    SetValue(s, k, v, u, o)
GetByCategoryCall ==
  \E s \in StaticsSlots, c \in StaticsCategories, p \in IncludePrivate :
    GetByCategory(s, c, p)
CreatePrivateRequest == \E s \in StaticsSlots : Create(s, Admin, CreatePrivate)

InitStatics == Init /\ store = Seeded

NextStatics ==
  \/ SetValueCall
  \/ GetByCategoryCall
  \/ CreatePrivateRequest
  \/ \E s \in Slots : SetValueSave(s)
  \/ \E s \in Slots : CreateSave(s)

SpecStatics == InitStatics /\ [][NextStatics]_vars

(***************************************************************************)
(* Properties.                                                             *)
(***************************************************************************)
\* The caller is an existing, active user whose role is admin.
ActiveAdmin(c) ==
  /\ c.present /\ c.valid
  /\ c.userId \in DOMAIN Users
  /\ Users[c.userId].isActive
  /\ Users[c.userId].role = "admin"

\* The filter of the public endpoint, as the specification words it.
PublicMatch(d, q) == d.isPublic = Bool(TRUE) /\ (q \in {Absent, ""} \/ d.category = q)

\* C1: with requests served one at a time, every stored entry's version is
\* 1 + the number of successful mutating requests (PUT, bulk-update item,
\* reset) applied to it since its creation; a new entry has version 1 and a
\* failed request adds nothing.
C1_VersionCountsMutations ==
  \A d \in store : d.version = 1 + muts[d._id]

\* C2: an entry whose isEditable is false is never changed in any field and
\* never deleted by a step of any request.
C2_NonEditableNeverChanged ==
  [][\A d \in store : ~ToBoolean(d.isEditable) => d \in store']_vars

\* C3: PUT /:key and DELETE /:key on a stored entry with isEditable = false
\* are answered with a failure, whatever the body and the admin caller, and
\* leave the collection as it was.
C3_LockedPutDeleteFail ==
  [][\A s \in FreeSlots, c \in Callers, k \in Keys :
       (/\ Exists(k) /\ ~ToBoolean(FindOne(k).isEditable)
        /\ \/ \E b \in PutBodies : Put(s, c, k, b)
           \/ Delete(s, c, k))
       => /\ resp'.status >= 400
          /\ resp'.key = k
          /\ store' = store
          /\ slot' = slot]_vars

C3_Witness ==
  /\ resp.op = "update"
  /\ resp.message = "This configuration is not editable"
  /\ \E d \in store : d.key = resp.key /\ ~ToBoolean(d.isEditable)

\* C4: POST /reset/:key on a stored entry fails and changes nothing when the
\* entry has no defaultValue; when it has one (false, 0 and '' included,
\* valid under the entry's rules or not) the reset goes on to save, succeeds,
\* stores exactly defaultValue as value and increments version by 1.
C4_ResetRestoresDefault ==
  [][/\ \A s \in FreeSlots, c \in Callers, k \in Keys :
          (Reset(s, c, k) /\ Exists(k)) =>
             IF FindOne(k).defaultValue.k \in {"undefined", "null"}
             THEN resp'.status >= 400 /\ store' = store /\ slot' = slot
             ELSE slot'[s].pc = "save"
     /\ \A s \in Slots :
          (Save(s) /\ slot[s].op = "reset") =>
             /\ resp'.status = 200
             /\ \E d \in store' :
                  /\ d._id = slot[s].orig._id
                  /\ d.value = slot[s].orig.defaultValue
                  /\ d.version = slot[s].orig.version + 1]_vars

\* C5: the keys of the response of GET /public are exactly the keys of the
\* stored entries with isPublic = true that match the category filter, so
\* never the key of an entry with isPublic = false.
C5_PublicKeys ==
  [][\A s \in FreeSlots, q \in CategoryQueries :
       GetPublic(s, q) =>
         {e.key : e \in resp'.data} =
           {d.key : d \in {x \in store : PublicMatch(x, q)}}]_vars

\* C6: a request to a guarded route whose caller is not an active admin is
\* answered 401 or 403, no handler is ever in flight for such a caller, and
\* the step that answers it leaves the collection unchanged.
C6_GuardedRoutesAdminOnly ==
  [][/\ (resp'.op \in GuardedOps /\ ~ActiveAdmin(resp'.caller))
          => resp'.status \in {401, 403} /\ store' = store
     /\ \A s \in Slots : slot'[s].pc # "idle" => ActiveAdmin(slot'[s].caller)]_vars

C6_Witness ==
  /\ resp.op = "reset"
  /\ resp.status = 403
  /\ resp.caller = TokenFor("student1")
  /\ \E d \in store : ToBoolean(d.defaultValue)

\* C7: POST /api/configurations with a key that is already stored is refused
\* (status 400, "Configuration key already exists" when the body passes the
\* request validators) and leaves every stored entry and the number of
\* entries unchanged.
C7_DuplicateKeyRefused ==
  [][\A s \in FreeSlots, c \in Callers, b \in CreateBodies :
       (Exists(b.key) /\ Create(s, c, b))
       => /\ resp'.op = "create"
          /\ resp'.status = 400
          /\ CreateValidators(b) = <<>>
               => resp'.message = "Configuration key already exists"
          /\ store' = store
          /\ slot' = slot]_vars

C7_Witness ==
  /\ resp.op = "create"
  /\ resp.message = "Configuration key already exists"
  /\ \E d \in store : d.key = resp.key /\ d.value # CreateDuplicate.value

\* C8: the collection holds at most one entry per key, also when creates and
\* the seed script interleave between their lookup and their save; a save
\* that comes second stores nothing, and is answered 500 (the seed script
\* stops) unless the schema refuses the document before the insert.
C8_OneEntryPerKey ==
  [][/\ \A d1, d2 \in store' : d1.key = d2.key => d1 = d2
     /\ \A s \in Slots :
          (CreateSave(s) /\ Exists(slot[s].body.key))
          => /\ store' = store
             /\ resp'.status =
                  IF CreateErrors(NewConfiguration(0, slot[s].body, ""),
                                  slot[s].body) = <<>>
                  THEN 500 ELSE 400
     /\ (SeedSave /\ Exists(defaultConfigurations[seed.i].key))
          => store' = store /\ seed'.pc = "done"]_vars

C8_Witness ==
  /\ resp.op = "create"
  /\ resp.status = 500
  /\ resp.key = "assignment_late_penalty"
  /\ Exists("assignment_late_penalty")

\* C9: every stored entry's value passes validateValue for the entry's own
\* type and validation rules.
C9_StoredValuesValid ==
  \A d \in store : validateValue(d, d.value).isValid

C9_Witness ==
  /\ resp.op = "reset"
  /\ resp.status = 500
  /\ \E d \in store :
       /\ d.key = resp.key
       /\ ~validateValue(d, d.defaultValue).isValid
       /\ validateValue(d, d.value).isValid

\* C10: a PUT /:key on an editable entry whose value fails validateValue is
\* answered 400 with the errors validateValue lists, and changes no field of
\* the entry, whatever description, isPublic and tags the body also carries.
C10_InvalidPutChangesNothing ==
  [][\A k \in Keys, b \in PutBodies :
       (/\ Exists(k) /\ ToBoolean(FindOne(k).isEditable)
        /\ b.value.k # "undefined"
        /\ ~validateValue(FindOne(k), b.value).isValid)
       => \A s \in FreeSlots, c \in Callers :
            Put(s, c, k, b)
            => /\ resp'.status = 400
               /\ PutValidators(b) = <<>> =>
                    /\ resp'.message = "Validation failed"
                    /\ resp'.errors = validateValue(FindOne(k), b.value).errors
                    /\ resp'.errors # <<>>
               /\ store' = store
               /\ slot' = slot]_vars

C10_Witness ==
  /\ resp.op = "update"
  /\ resp.message = "Validation failed"
  /\ resp.errors = <<"Value must be at most 100">>
  /\ \E d \in store : d.key = resp.key /\ d.version = 2 /\ d.value = Num(15)

\* The seeded entry the scenario of C11 is about.
Penalty == FindOne("assignment_late_penalty")

\* C11: from the seeded assignment_late_penalty (value 10, default 10,
\* version 1), PUT 15 succeeds and stores value 15, version 2; PUT 150 is then
\* refused with 'Value must be at most 100' and value 15, version 2 stay;
\* the reset then succeeds and stores value 10, version 3.
C11_PenaltyScenario ==
  /\ (scenario = 1 /\ Quiet) =>
       /\ resp.op = "update" /\ resp.status = 200
       /\ Penalty.value = Num(15) /\ Penalty.version = 2
  /\ scenario = 2 =>
       /\ resp.op = "update" /\ resp.status = 400
       /\ resp.message = "Validation failed"
       /\ resp.errors = <<"Value must be at most 100">>
       /\ Penalty.value = Num(15) /\ Penalty.version = 2
  /\ (scenario = 3 /\ Quiet) =>
       /\ resp.op = "reset" /\ resp.status = 200
       /\ Penalty.value = Num(10) /\ Penalty.version = 3

C11_Witness ==
  /\ scenario = 3 /\ Quiet
  /\ resp.op = "reset" /\ resp.key = "assignment_late_penalty"
  /\ Penalty.version = 3

\* An item the bulk-update loop can apply: its key is stored and editable and
\* its value passes validateValue.
Applicable(item) ==
  /\ Exists(item.key)
  /\ ToBoolean(FindOne(item.key).isEditable)
  /\ validateValue(FindOne(item.key), item.value).isValid

\* The list [{existingEditableKey, validValue}, {unknownKey, anyValue}].
OneGoodOneUnknown(l) ==
  Len(l) = 2 /\ Applicable(l[1]) /\ ~Exists(l[2].key)

\* C12: a bulk-update of [{existingEditableKey, validValue}, {unknownKey,
\* anyValue}] runs its loop, increments the version of the existing key once
\* (in the save of the first item, and in no other step) and answers 200
\* with exactly the existing key in results and the unknown key in errors.
C12_BulkOneSuccessOneFailure ==
  [][/\ \A s \in FreeSlots, c \in Callers, l \in BulkLists :
          (OneGoodOneUnknown(l) /\ Bulk(s, c, l)) =>
             slot'[s].pc = "bulk_find" /\ store' = store
     /\ \A s \in Slots :
          (slot[s].op = "bulk-update" /\ OneGoodOneUnknown(slot[s].list)) =>
             /\ BulkSave(s) =>
                  /\ Len(slot[s].items) = 2
                  /\ store' = (store \ {FindOne(slot[s].list[1].key)}) \cup
                       {[FindOne(slot[s].list[1].key) EXCEPT
                           !.value = slot[s].list[1].value,
                           !.version = @ + 1,
                           !.lastModifiedBy = AdminGuard(slot[s].caller).user]}
             /\ BulkFind(s) =>
                  /\ store' = store
                  /\ Len(slot[s].items) = 1 =>
                       /\ resp'.status = 200
                       /\ resp'.results = <<slot[s].list[1].key>>
                       /\ resp'.failed =
                            <<Failure(slot[s].list[2].key,
                                      "Configuration not found")>>]_vars

\* C13: for any bulk-update list the request is never refused as a whole and
\* ends with a 200 response; an item that is applicable when the loop reaches
\* it is saved (value replaced, version + 1), and an item that fails changes
\* nothing, so it neither ends the loop nor undoes an earlier item.
C13_BulkContinuesOnError ==
  [][/\ \A s \in FreeSlots, c \in Callers, l \in BulkLists :
          Bulk(s, c, l) =>
             /\ store' = store
             /\ IF l = <<>> THEN resp'.status = 200
                ELSE slot'[s].pc = "bulk_find" /\ slot'[s].items = l
     /\ \A s \in Slots :
          /\ BulkFind(s) =>
               /\ store' = store
               /\ Applicable(Head(slot[s].items)) => slot'[s].pc = "bulk_save"
               /\ ~Applicable(Head(slot[s].items)) =>
                    IF Len(slot[s].items) = 1 THEN resp'.status = 200
                    ELSE /\ slot'[s].pc = "bulk_find"
                         /\ slot'[s].items = Tail(slot[s].items)
          /\ BulkSave(s) =>
               /\ store' = (store \ {FindOne(Head(slot[s].items).key)}) \cup
                    {[FindOne(Head(slot[s].items).key) EXCEPT
                        !.value = Head(slot[s].items).value,
                        !.version = @ + 1,
                        !.lastModifiedBy = AdminGuard(slot[s].caller).user]}
               /\ IF Len(slot[s].items) = 1 THEN resp'.status = 200
                  ELSE /\ slot'[s].pc = "bulk_find"
                       /\ slot'[s].items = Tail(slot[s].items)]_vars

\* The document, the candidate and the outcome of the last validateValue call.
Probed(type) == probe.calls = 1 /\ probe.doc.type = type
Rule == probe.doc.validation
Candidate == probe.value
Outcome == probe.result

\* C14: for an entry of type number with min and max set, validateValue of a
\* numeric v is valid exactly when min <= v <= max, both bounds included.
C14_NumberBoundsInclusive ==
  (Probed("number") /\ Rule.hasMin /\ Rule.hasMax /\ Candidate.k = "number")
    => (Outcome.isValid = (Rule.min <= Candidate.n /\ Candidate.n <= Rule.max))

C14_Witness ==
  /\ Probed("number") /\ Rule.hasMin /\ Rule.hasMax
  /\ Rule.min < Rule.max
  /\ Candidate = Num(Rule.max)
  /\ Outcome.isValid

\* Whether a length n is outside the bounds of the rule set; a bound that is
\* not set excludes nothing.
Below(n) == Rule.hasMin /\ n < Rule.min
Above(n) == Rule.hasMax /\ n > Rule.max

\* C15 as stated: for an entry of type string, a string whose character
\* count is below min or above max is invalid, and every string whose
\* character count is within the bounds is valid when no pattern is set.
C15_StringLengthBounds ==
  (Probed("string") /\ Candidate.k = "string") =>
    LET n == Len(Candidate.s) IN
    /\ (Below(n) \/ Above(n)) => ~Outcome.isValid
    /\ (~Below(n) /\ ~Above(n) /\ ~Rule.pattern.has) => Outcome.isValid

\* C15 amended: the length is the number of UTF-16 code units, and a string
\* within the bounds is valid when no pattern is set unless it is the empty
\* string of an entry whose validation.required is true.
C15_StringLengthInUnits ==
  (Probed("string") /\ Candidate.k = "string") =>
    LET n == Length(Candidate.s) IN
    /\ (Below(n) \/ Above(n)) => ~Outcome.isValid
    /\ (~Below(n) /\ ~Above(n) /\ ~Rule.pattern.has
          /\ ~(Rule.required /\ Candidate.s = <<>>)) => Outcome.isValid

C15_Witness ==
  /\ Probed("string") /\ Candidate.k = "string"
  /\ Rule.hasMin /\ Rule.hasMax /\ ~Rule.pattern.has
  /\ Length(Candidate.s) = Rule.max
  /\ Len(Candidate.s) < Rule.min
  /\ Outcome.isValid

\* The whole of cs matches the pattern: its characters, from the first to the
\* last, are matched one by one by the classes of the pattern.
FullMatch(p, cs) ==
  /\ Len(cs) = Len(p.classes)
  /\ \A j \in 1..Len(cs) : cs[j] \in p.classes[j]

PatternError == "Value does not match required pattern"

\* C16: for an entry of type string with a pattern, validateValue(s) is valid
\* only if the whole of s matches the pattern, and a string that does not
\* match as a whole is refused with 'Value does not match required pattern'.
C16_PatternFullMatch ==
  (Probed("string") /\ Candidate.k = "string" /\ Rule.pattern.has) =>
    /\ Outcome.isValid => FullMatch(Rule.pattern, Candidate.s)
    /\ ~FullMatch(Rule.pattern, Candidate.s)
         => Includes(Outcome.errors, PatternError)

\* The elements of the candidate array that are not among the options, in
\* the order of the array.
Allowed(e) == \E i \in 1..Len(Rule.options) : Rule.options[i] = e
NotAllowed(e) == ~Allowed(e)
Offending == SelectSeq(Candidate.a, NotAllowed)

\* C17: for an entry of type array, validateValue(a) is invalid exactly when
\* a is not an array or has an element outside options; in the latter case
\* the error names the elements outside options, all of them and in order.
\* An array of allowed elements, the empty one included, is valid.
C17_ArrayOptions ==
  Probed("array") =>
    /\ Outcome.isValid = (Candidate.k = "array" /\ Offending = <<>>)
    /\ (Candidate.k = "array" /\ Offending # <<>>) =>
          Outcome.errors =
            <<"Invalid options: " \o Text(Join(Offending, <<",", " ">>))>>

C17_Witness ==
  /\ Probed("array") /\ Candidate.k = "array"
  /\ Rule.options # <<>>
  /\ Len(Candidate.a) = 2 /\ Allowed(Candidate.a[1])
  /\ Offending = <<Candidate.a[2]>>
  /\ ~Outcome.isValid

\* The rules of the document the candidate violates, each taken on its own.
Empty == Candidate.k = "null" \/ Candidate.k = "undefined" \/ Candidate = Str(<<>>)
AsNumber == ToNumber(Candidate)
AsLength == Length(ToStr(Candidate))
Violations ==
  {r \in {"required", "number", "min", "max", "pattern", "array", "options"} :
     CASE r = "required" -> Rule.required /\ Empty
       [] r = "number" -> probe.doc.type = "number" /\ AsNumber.nan
       [] r = "min" ->
            \/ /\ probe.doc.type = "number" /\ ~AsNumber.nan
               /\ Rule.hasMin /\ LessThan(AsNumber, Rule.min)
            \/ probe.doc.type = "string" /\ Below(AsLength)
       [] r = "max" ->
            \/ /\ probe.doc.type = "number" /\ ~AsNumber.nan
               /\ Rule.hasMax /\ GreaterThan(AsNumber, Rule.max)
            \/ probe.doc.type = "string" /\ Above(AsLength)
       [] r = "pattern" ->
            /\ probe.doc.type = "string" /\ Rule.pattern.has
            /\ ~RegExpTest(Rule.pattern, ToStr(Candidate))
       [] r = "array" -> probe.doc.type = "array" /\ Candidate.k # "array"
       [] r = "options" ->
            probe.doc.type = "array" /\ Candidate.k = "array" /\ Offending # <<>>}

\* C18: validateValue answers isValid = true exactly when errors is empty,
\* and every rule the candidate violates contributes one entry to errors.
C18_AllErrorsCollected ==
  probe.calls = 1 =>
    /\ Outcome.isValid = (Outcome.errors = <<>>)
    /\ Len(Outcome.errors) = Cardinality(Violations)

\* The empty string violates required, the minimum length and the pattern.
C18_Witness ==
  /\ Probed("string")
  /\ Violations = {"required", "min", "pattern"}
  /\ Len(Outcome.errors) = 3 /\ ~Outcome.isValid

\* C19: GET /export sent by an admin is answered with all stored entries, or
\* all entries of the requested category, whatever the store holds.
C19_ExportReturnsAll ==
  [][\A s \in FreeSlots, c \in Callers, category \in CategoryQueries :
       (ActiveAdmin(c) /\ Get(s, c, "/export", category)) =>
         /\ resp'.status = 200
         /\ resp'.data = {d \in store : Matches(d, category, FALSE)}]_vars

\* C20: while a fetch of the public projection is in flight, the initial one
\* or one started by refreshConfigurations, loading is true; so loading is
\* false only when no fetch is in flight.
C20_LoadingWhileInFlight ==
  (\E i \in Fetches : InFlight(i)) => client.loading

\* C25: the stored version of an entry never decreases, whatever the
\* interleaving of the updates, bulk-updates and resets of its key.
C25_VersionNeverDecreases ==
  [][\A d \in store : \A e \in store' :
       e._id = d._id => e.version >= d.version]_vars

\* The update in slot s is about to save an entry that another request has
\* saved since the update read it.
StaleUpdate(s) ==
  /\ slot[s].pc = "save" /\ slot[s].op = "update"
  /\ \E d \in store : d._id = slot[s].doc._id /\ d # slot[s].orig

\* The save of slot s was answered 200 and stored the value of its request
\* and the version it read plus one.
SavedOver(s) ==
  /\ resp'.status = 200
  /\ \E e \in store' : /\ e._id = slot[s].doc._id
                        /\ e.value = slot[s].doc.value
                        /\ e.version = slot[s].orig.version + 1

\* C26 as stated: an update that read the entry before another request saved
\* it is not rejected: its save succeeds, the value stored is its own and the
\* version stored is the one it read plus one, so that two updates that read
\* the same version raise it by 1 in total.
C26_StaleUpdateWins ==
  [][\A s \in Slots : (StaleUpdate(s) /\ Save(s)) => SavedOver(s)]_vars

\* C26 amended: the same for an update whose value is not an array and
\* differs from the value it read, and which does not replace the tags.
C26_StaleValueUpdateWins ==
  [][\A s \in Slots :
       (/\ StaleUpdate(s)
        /\ slot[s].doc.value.k # "array"
        /\ slot[s].doc.value # slot[s].orig.value
        /\ slot[s].doc.tags = slot[s].orig.tags
        /\ Save(s)) => SavedOver(s)]_vars

\* Two updates were saved on the seeded entry and its version is 2.
C26_Witness ==
  /\ resp.op = "update" /\ resp.status = 200 /\ resp.key = RaceKey
  /\ muts[Penalty._id] = 2 /\ Penalty.version = 2

\* The fields of an entry that are fixed when it is created.
Fixed(d) == <<d.key, d.type, d.category, d.validation, d.defaultValue, d.isEditable>>

\* C28: while an entry is stored, no request changes its key, type, category,
\* validation, defaultValue or isEditable, whatever the body carries.
C28_FixedFieldsKept ==
  [][\A d \in store : \A e \in store' :
       e._id = d._id => Fixed(e) = Fixed(d)]_vars

\* An update and a reset have been applied to the seeded entry.
C28_Witness ==
  /\ Exists(RaceKey) /\ muts[Penalty._id] = 2
  /\ resp.op = "reset" /\ resp.status = 200
  /\ Penalty.value = Penalty.defaultValue

\* The stored entry a call of setValue in flight is about.
Target(s) == CHOOSE d \in store : d._id = slot[s].orig._id

\* The fields of an entry setValue has no business with.
Kept(d) == <<d._id, d.key, d.type, d.category, d.isPublic, d.isEditable, d.validation, d.defaultValue>>

\* C24: setValue throws and leaves the store unchanged when the key is absent
\* or validateValue rejects the value; every other call ends with the entry's
\* value replaced, lastModifiedBy set to the modifier, version one higher
\* than it was stored, description and tags overwritten only by the ones
\* supplied, and every other entry and field as it was.
C24_SetValueContract ==
  [][\A s \in Slots :
       /\ \A k \in Keys, v \in SetValueValues, u \in UserIds, o \in SetValueOptions :
            (SetValue(s, k, v, u, o)
               /\ (FindOne(k) = NoDoc \/ ~validateValue(FindOne(k), v).isValid))
            => resp'.message # "" /\ store' = store
       /\ SetValueSave(s) =>
            LET c == slot[s].body
                d == Target(s)
            IN /\ resp'.message = ""
               /\ \E e \in store' :
                    /\ store' \ {e} = store \ {d}
                    /\ Kept(e) = Kept(d)
                    /\ e.value = c.value
                    /\ e.lastModifiedBy = c.userId
                    /\ e.version = d.version + 1
                    /\ e.description = d.description
                       \/ (c.options.description # Absent
                           /\ e.description = c.options.description)
                    /\ e.tags = d.tags
                       \/ (c.options.tags.given /\ e.tags = c.options.tags.v)]_vars

\* C27: getByCategory returns only entries of the category asked for; none of
\* them is private when includePrivate is false or left out, and with
\* includePrivate = true they are all the entries of the category.
C27_GetByCategory ==
  [][\A s \in Slots, c \in StaticsCategories, p \in IncludePrivate :
       GetByCategory(s, c, p) =>
         LET got == {resp'.results[i] : i \in DOMAIN resp'.results} IN
         /\ got \subseteq {d \in store : d.category = c}
         /\ p \in {Undefined, Bool(FALSE)} => \A d \in got : d.isPublic = Bool(TRUE)
         /\ p = Bool(TRUE) => got = {d \in store : d.category = c}]_vars

\* A call answered with the public entry of a category that also holds a
\* private one.
C27_Witness ==
  /\ resp.op = "getByCategory"
  /\ Len(resp.results) >= 1
  /\ \E d \in store :
       /\ d.category = resp.key /\ d.isPublic # Bool(TRUE)
       /\ \A i \in DOMAIN resp.results : resp.results[i] # d

\* A value a consumer can use: neither undefined nor null.
Usable(v) == v.k \notin {"undefined", "null"}
AllUsable(r) == \A f \in DOMAIN r : Usable(r[f])

\* Every named getter returns usable values on the snapshot held.
GettersUsable ==
  /\ Usable(isMaintenanceMode)
  /\ Usable(isRegistrationOpen("student"))
  /\ Usable(isRegistrationOpen("instructor"))
  /\ AllUsable(getFileUploadConfig)
  /\ AllUsable(getThemeConfig)
  /\ AllUsable(getCourseConfig)
  /\ AllUsable(getAssignmentConfig)
  /\ AllUsable(getAttendanceConfig)
  /\ AllUsable(getNotificationConfig)
  /\ AllUsable(getSecurityConfig)

Failed(i) == client.fetches[i].status # 200
Done(i) == client.fetches[i].pc = "done"

\* C21: in every state of the client cache every named getter returns a
\* defined, non-null value for each of its fields, and a fetch that fails
\* ends with loading = false, error set and the hard-coded snapshot.
C21_GettersAlwaysUsable ==
  [][/\ GettersUsable
     /\ GettersUsable'
     /\ \A i \in Fetches :
          (Settle(i) /\ Failed(i)) =>
            /\ ~client'.loading
            /\ client'.error # ""
            /\ client'.configurations = Fallback]_vars

\* C22: at most one fetch of the public projection is in flight at any time.
C22_OneFetchInFlight ==
  Cardinality({i \in Fetches : InFlight(i)}) <= 1

SnapshotKeys(snapshot) == {e.key : e \in snapshot}

\* C23: the snapshot a failed fetch leaves has the key set of the seed
\* script's defaultConfigurations, each key with the seed entry's
\* defaultValue.
C23_FallbackMirrorsSeed ==
  [][\A i \in Fetches :
       (Settle(i) /\ Failed(i)) =>
         /\ SnapshotKeys(client'.configurations) = SnapshotKeys(SeedDefaults)
         /\ client'.configurations \subseteq SeedDefaults]_vars

\* The snapshot a fetch sets when it settles.
FetchOutcome(f) == IF f.status = 200 THEN f.data ELSE Fallback

\* C29: once every fetch has completed, the snapshot held is the outcome of
\* the fetch that was started last.
C29_LatestStartedWins ==
  (Fetches # {} /\ \A i \in Fetches : Done(i)) =>
    client.configurations = FetchOutcome(client.fetches[Len(client.fetches)])

\* C30: a fetch that fails replaces the snapshot by the hard-coded one and
\* sets error, whatever an earlier fetch had loaded; a fetch started later
\* than a failed one that succeeds leaves error null and the server's answer
\* as the snapshot.
C30_FailThenRecover ==
  [][\A j \in Fetches :
       /\ (Settle(j) /\ Failed(j)) =>
            client'.configurations = Fallback /\ client'.error # ""
       /\ (Settle(j) /\ ~Failed(j)
             /\ \E i \in 1..(j - 1) : Done(i) /\ Failed(i)) =>
            /\ client'.error = ""
            /\ client'.configurations = client.fetches[j].data]_vars

====
